---- MODULE Spec2Model ----
(***************************************************************************)
(* A model of env-integrity-check: the SARIF reporters, the sanitizers,    *)
(* the secrets scanners and the two command-line pipelines (main, audit).  *)
(* Text is read character by character wherever the code looks inside it  *)
(* (ordering, substring search, splitting, regular expressions).           *)
(***************************************************************************)
EXTENDS Integers, Sequences, FiniteSets, TLC

VARIABLES
    results,      \* generate_report: the input list of findings; main: results
    shuffled,     \* generate_report: a permutation of results, the second input
    findings,     \* emit_sarif: the input dict, as a sequence of sections
    out,          \* the documents the calls returned so far
    arg,          \* the arguments of the function under call
    ret,          \* what its calls returned so far
    pc,           \* the statement a command is at
    opts,         \* the command line of the run and the files it names
    env_vars,     \* main: the fact table parse_env_file returned
    policy_rules, \* main: None (<<>>) or the loaded policy (<<policy>>)
    metrics,      \* main: metrics_collector.metrics
    sarif_output, \* the report document a command built
    stdout,       \* what was echoed to standard output
    stderr,       \* what was echoed to standard error
    written,      \* the output file: absent (<<>>) or its content (<<doc>>)
    raised,       \* the exceptions raised so far in the run
    ran,          \* the detectors that ran, in the order they returned
    exit_status   \* <<>> while the command runs, then <<status>>

vars ==
    <<results, shuffled, findings, out, arg, ret, pc, opts, env_vars, policy_rules, metrics,
      sarif_output, stdout, stderr, written, raised, ran, exit_status>>

\* The variables outside each group, which the actions of the group leave alone.
notReportVars ==
    <<arg, ret, pc, opts, env_vars, policy_rules, metrics, sarif_output, stdout, stderr,
      written, raised, ran, exit_status>>

notCallVars ==
    <<results, shuffled, findings, out, pc, opts, env_vars, policy_rules, metrics,
      sarif_output, stdout, stderr, written, raised, ran, exit_status>>

\* What no statement of main touches.
notMainVars == <<shuffled, findings, out, arg, ret>>

\* Each group at rest, for the specifications that do not use it.
ReportIdle == results = <<>> /\ shuffled = <<>> /\ findings = <<>> /\ out = <<>>

CallIdle == arg = <<>> /\ ret = <<>>

RunIdle ==
    /\ pc = "idle" /\ opts = <<>> /\ env_vars = <<>> /\ policy_rules = <<>>
    /\ metrics = <<>> /\ sarif_output = <<>> /\ stdout = <<>> /\ stderr = <<>>
    /\ written = <<>> /\ raised = <<>> /\ ran = <<>> /\ exit_status = <<>>

(***************************************************************************)
(* Text                                                                    *)
(***************************************************************************)

\* The i-th character of a string, as a string of length one.
Ch(s, i) == SubSeq(s, i, i)

\* Printable ASCII in code point order, without the backquote (96), which a
\* TLA+ string cannot hold: the i-th character of AsciiLow has code point
\* 31 + i (32..95) and the i-th of AsciiHigh has code point 96 + i (97..126).
AsciiLow == " !\"#$%&'()*+,-./0123456789:;<=>?@ABCDEFGHIJKLMNOPQRSTUVWXYZ[\\]^_"

AsciiHigh == "abcdefghijklmnopqrstuvwxyz{|}~"

CharSet ==
    {Ch(AsciiLow, i) : i \in 1..Len(AsciiLow)} \cup {Ch(AsciiHigh, i) : i \in 1..Len(AsciiHigh)}

OrdTable ==
    [c \in CharSet |->
        IF \E i \in 1..Len(AsciiLow) : Ch(AsciiLow, i) = c
        THEN 31 + (CHOOSE i \in 1..Len(AsciiLow) : Ch(AsciiLow, i) = c)
        ELSE 96 + (CHOOSE i \in 1..Len(AsciiHigh) : Ch(AsciiHigh, i) = c)]

\* ord(c)
Ord(c) == OrdTable[c]

\* str.lower()
Lower(s) ==
    LET lowered[i \in 0..Len(s)] ==
            IF i = 0 THEN ""
            ELSE lowered[i - 1]
                 \o (IF Ch(s, i) \in CharSet /\ Ord(Ch(s, i)) >= 65 /\ Ord(Ch(s, i)) <= 90
                     THEN Ch(AsciiHigh, Ord(Ch(s, i)) - 64) ELSE Ch(s, i))
    IN  lowered[Len(s)]

\* str.upper()
Upper(s) ==
    LET raisedCase[i \in 0..Len(s)] ==
            IF i = 0 THEN ""
            ELSE raisedCase[i - 1]
                 \o (IF Ch(s, i) \in CharSet /\ Ord(Ch(s, i)) >= 97 /\ Ord(Ch(s, i)) <= 122
                     THEN Ch(AsciiLow, Ord(Ch(s, i)) - 63) ELSE Ch(s, i))
    IN  raisedCase[Len(s)]

\* Python's str comparison a < b: by code point at the first position where
\* the two differ, a proper prefix first.
StrLess(a, b) ==
    IF a = b THEN FALSE
    ELSE LET n == IF Len(a) < Len(b) THEN Len(a) ELSE Len(b)
             differ == {i \in 1..n : Ch(a, i) # Ch(b, i)}
         IN  IF differ = {} THEN Len(a) < Len(b)
             ELSE LET d == CHOOSE i \in differ : \A j \in differ : i <= j
                  IN  Ord(Ch(a, d)) < Ord(Ch(b, d))

\* str(n) of a natural number.
RECURSIVE Decimal(_)
Decimal(n) ==
    IF n < 10 THEN Ch("0123456789", n + 1)
    ELSE Decimal(n \div 10) \o Ch("0123456789", (n % 10) + 1)

\* Python's "w in s": w occurs in s starting at some position i.
Contains(s, w) == \E i \in 1..(Len(s) - Len(w) + 1) : SubSeq(s, i, i + Len(w) - 1) = w

\* The characters str.strip() removes and \s of the regular expressions
\* matches, among those a text of the model holds.
Whitespace == {" ", "\t", "\n", "\r"}

\* str.strip()
Strip(s) ==
    LET kept == {i \in 1..Len(s) : Ch(s, i) \notin Whitespace}
    IN  IF kept = {} THEN ""
        ELSE SubSeq(s, CHOOSE i \in kept : \A j \in kept : i <= j,
                       CHOOSE i \in kept : \A j \in kept : i >= j)

\* str.splitlines(): the text between the line breaks, "\r\n" being one
\* break; what follows the last break is a line only if it is not empty.
SplitLines(s) ==
    LET isBreak(i) == Ch(s, i) \in {"\n", "\r"}
        \* the second character of a "\r\n"
        isJoined(i) == i > 1 /\ Ch(s, i) = "\n" /\ Ch(s, i - 1) = "\r"
        split[i \in 0..Len(s)] ==
            IF i = 0 THEN [done |-> <<>>, from |-> 1]
            ELSE IF isJoined(i) THEN [split[i - 1] EXCEPT !.from = i + 1]
            ELSE IF isBreak(i)
                 THEN [done |-> Append(split[i - 1].done, SubSeq(s, split[i - 1].from, i - 1)),
                       from |-> i + 1]
                 ELSE split[i - 1]
        end == split[Len(s)]
    IN  IF end.from <= Len(s) THEN Append(end.done, SubSeq(s, end.from, Len(s)))
        ELSE end.done

\* str.partition(sep) for a separator of one character: what is before its
\* first occurrence and what is after; the whole text and "" without one.
Partition(s, sep) ==
    LET at == {i \in 1..Len(s) : Ch(s, i) = sep}
        p == CHOOSE i \in at : \A j \in at : i <= j
    IN  IF at = {} THEN [before |-> s, found |-> FALSE, after |-> ""]
        ELSE [before |-> SubSeq(s, 1, p - 1), found |-> TRUE,
              after |-> SubSeq(s, p + 1, Len(s))]

\* str.split(sep) for a separator of one character.
SplitOn(s, sep) ==
    LET split[i \in 0..Len(s)] ==
            IF i = 0 THEN [done |-> <<>>, from |-> 1]
            ELSE IF Ch(s, i) = sep
                 THEN [done |-> Append(split[i - 1].done, SubSeq(s, split[i - 1].from, i - 1)),
                       from |-> i + 1]
                 ELSE split[i - 1]
    IN  Append(split[Len(s)].done, SubSeq(s, split[Len(s)].from, Len(s)))

(***************************************************************************)
(* list.sort(key=...): a stable sort. The list is given by its length n    *)
(* and less[i][j], which says that the key of element i is smaller than    *)
(* the key of element j; the result is the order of the indices.           *)
(***************************************************************************)

\* Index x put before the first index whose key is greater, so after every
\* index with an equal key.
Insert(order, x, less) ==
    LET greater == {i \in 1..Len(order) : less[x][order[i]]}
        p == IF greater = {} THEN Len(order) + 1
             ELSE CHOOSE i \in greater : \A j \in greater : i <= j
    IN  SubSeq(order, 1, p - 1) \o <<x>> \o SubSeq(order, p, Len(order))

StableOrder(n, less) ==
    LET sortedPrefix[i \in 0..n] ==
            IF i = 0 THEN <<>> ELSE Insert(sortedPrefix[i - 1], i, less)
    IN  sortedPrefix[n]

\* seq in the order the sort gives.
Arrange(seq, order) == [k \in 1..Len(seq) |-> seq[order[k]]]

(***************************************************************************)
(* SARIFReporter (env_integrity_check/sarif_reporter.py).                  *)
(* A finding is the internal result dict: rule_id, level, message,         *)
(* location.line (line) and the optional details: <<>> when the key is     *)
(* absent, <<d>> when it is present. No detector sets location.column.     *)
(***************************************************************************)

\* SARIFReporter(tool_name=..., tool_version=...) as main constructs it.
ToolName == "env-integrity-check"

ToolVersion == "0.1.0"

_map_level(level) ==
    LET l == Lower(level)
    IN  CASE l = "error" -> "error"
          [] l = "warning" -> "warning"
          [] l = "info" -> "note"
          [] l = "note" -> "note"
          [] OTHER -> "warning"

\* A fingerprint of the rule and the file only.
_generate_fingerprintOfRuleAndFile(rule_id, file_path, line) ==
    [sha256_16 |-> rule_id \o ":" \o file_path]

\* _generate_fingerprint: the first 16 hex digits of the SHA-256 of
\* "rule_id:file_path:line"; the digest is kept as the text it is taken of.
_generate_fingerprint(rule_id, file_path, line) ==
    [sha256_16 |-> rule_id \o ":" \o file_path \o ":" \o Decimal(line)]

_get_rule_description(rule_id) ==
    CASE rule_id = "schema-validation" -> "Schema validation error"
      [] rule_id = "missing-required-field" -> "Required field is missing"
      [] rule_id = "missing-required-var" -> "Required environment variable is missing"
      [] rule_id = "forbidden-var" -> "Forbidden environment variable detected"
      [] rule_id = "pattern-match" -> "Environment variable matches warning pattern"
      [] rule_id = "secret-detected" -> "Potential secret detected in environment file"
      [] OTHER -> "Rule " \o rule_id

_get_rule_help(rule_id) ==
    CASE rule_id = "schema-validation" ->
             "Environment variable does not match expected schema type or format."
      [] rule_id = "missing-required-field" ->
             "A required field defined in the schema is not present in the environment file."
      [] rule_id = "missing-required-var" ->
             "A required environment variable specified in policy is missing."
      [] rule_id = "forbidden-var" ->
             "An environment variable that is forbidden by policy is present."
      [] rule_id = "pattern-match" ->
             "Environment variable name matches a pattern defined in policy."
      [] rule_id = "secret-detected" ->
             "Potential secret or sensitive credential detected by secrets scanner."
      [] OTHER -> "Validation rule: " \o rule_id

\* A conversion whose fingerprint takes the message in.
_convert_to_sarif_resultWithMessageInFingerprint(result, source_file) ==
    [ruleId |-> result.rule_id,
     level |-> _map_level(result.level),
     message |-> result.message,
     uri |-> source_file,
     startLine |-> result.line,
     startColumn |-> 1,
     fingerprint |-> _generate_fingerprint(result.rule_id \o ":" \o result.message,
                                           source_file, result.line),
     properties |-> result.details]

_convert_to_sarif_result(result, source_file) ==
    [ruleId |-> result.rule_id,
     level |-> _map_level(result.level),
     message |-> result.message,
     uri |-> source_file,
     startLine |-> result.line,
     startColumn |-> 1,
     fingerprint |-> _generate_fingerprint(result.rule_id, source_file, result.line),
     properties |-> result.details]

\* A sort key that leaves the rule out.
ResultKeyLessLineOnly(a, b) == a.startLine < b.startLine

\* A sort key that leaves the line out.
ResultKeyLessRuleOnly(a, b) == StrLess(a.ruleId, b.ruleId)

\* The sort key of generate_report, (ruleId, startLine), compared as Python
\* compares tuples.
ResultKeyLess(a, b) ==
    \/ StrLess(a.ruleId, b.ruleId)
    \/ a.ruleId = b.ruleId /\ a.startLine < b.startLine

\* The conversion loop of generate_report followed by sarif_results.sort(...).
SortedSarifResults(rs, source_file) ==
    LET converted == [i \in 1..Len(rs) |-> _convert_to_sarif_result(rs[i], source_file)]
        less == [i \in 1..Len(rs) |-> [j \in 1..Len(rs) |->
                    ResultKeyLess(converted[i], converted[j])]]
    IN  Arrange(converted, StableOrder(Len(rs), less))

\* A catalog with one entry for each result, in the order of the results.
_extract_rulesOfEachResult(rs) ==
    [i \in 1..Len(rs) |->
        [id |-> rs[i].rule_id,
         shortDescription |-> _get_rule_description(rs[i].rule_id),
         help |-> _get_rule_help(rs[i].rule_id),
         level |-> _map_level(rs[i].level)]]

\* _extract_rules: one entry per rule id, made from the first result that has
\* it, sorted by id.
_extract_rules(rs) ==
    LET first == {i \in 1..Len(rs) : \A j \in 1..(i - 1) : rs[j].rule_id # rs[i].rule_id}
        entry(i) == [id |-> rs[i].rule_id,
                     shortDescription |-> _get_rule_description(rs[i].rule_id),
                     help |-> _get_rule_help(rs[i].rule_id),
                     level |-> _map_level(rs[i].level)]
        inOrder[i \in 0..Len(rs)] ==
            IF i = 0 THEN <<>>
            ELSE IF i \in first THEN Append(inOrder[i - 1], entry(i))
            ELSE inOrder[i - 1]
        entries == inOrder[Len(rs)]
        less == [i \in 1..Len(entries) |-> [j \in 1..Len(entries) |->
                    StrLess(entries[i].id, entries[j].id)]]
    IN  Arrange(entries, StableOrder(Len(entries), less))

\* generate_report; metrics_data is <<>> for None and <<m>> otherwise.
generate_report(rs, source_file, metrics_data) ==
    [version |-> "2.1.0",
     tool |-> [name |-> ToolName, version |-> ToolVersion],
     rules |-> _extract_rules(rs),
     results |-> SortedSarifResults(rs, source_file),
     properties |-> metrics_data]


(***************************************************************************)
(* The second implementation (src/env_integrity_check): sanitize_for_sarif *)
(* and emit_sarif. Its findings are a dict from a section name ("errors",  *)
(* "warnings", "secrets") to a list of items, kept here as the sequence of *)
(* its sections in insertion order. An item is a dict with the optional    *)
(* keys key, message, type, line and warning: <<>> when absent, <<v>> when *)
(* present.                                                                *)
(***************************************************************************)

SENSITIVE_KEYS ==
    {"password", "passwd", "pwd", "secret", "token", "key", "api_key",
     "auth", "credential", "private", "cert", "certificate"}

is_sensitive_key(key) ==
    LET k == Lower(key) IN \E w \in SENSITIVE_KEYS : Contains(k, w)

\* The length from which _sanitize_snippet truncates.
SnippetLimit == 100

_sanitize_snippet(value, rule_id) ==
    IF rule_id = "SEC001" THEN "[REDACTED]"
    ELSE IF Len(value) > SnippetLimit THEN SubSeq(value, 1, SnippetLimit) \o "..."
    ELSE value

sanitize_for_sarif(key, value, rule_id) ==
    IF is_sensitive_key(key) THEN "[REDACTED]" ELSE _sanitize_snippet(value, rule_id)

\* dict.get(k, default) on an optional key.
Get(opt, default) == IF opt = <<>> THEN default ELSE opt[1]

\* The result emit_sarif appends for one item of the section named level.
EmitResult(level, item, file_path) ==
    [ruleId |-> Get(item.type, "ENV"),
     level |-> level,
     message |-> item.message[1],
     uri |-> file_path,
     startLine |-> Get(item.line, 1),
     snippet |-> sanitize_for_sarif(Get(item.key, ""), Get(item.message, ""), "ENV003")]

\* The sort key of emit_sarif: (ruleId, uri, startLine, message text).
EmitKeyLess(a, b) ==
    \/ StrLess(a.ruleId, b.ruleId)
    \/ /\ a.ruleId = b.ruleId
       /\ \/ StrLess(a.uri, b.uri)
          \/ /\ a.uri = b.uri
             /\ \/ a.startLine < b.startLine
                \/ a.startLine = b.startLine /\ StrLess(a.message, b.message)

\* Every item of every section, in iteration order, with its section's name.
RECURSIVE FlatItems(_)
FlatItems(fs) ==
    IF fs = <<>> THEN <<>>
    ELSE [i \in 1..Len(Head(fs).items) |->
             [level |-> Head(fs).section, item |-> Head(fs).items[i]]]
         \o FlatItems(Tail(fs))

\* emit_sarif: item["message"] raises KeyError on an item without a message;
\* otherwise the document is returned.
emit_sarif(fs, file_path) ==
    LET flat == FlatItems(fs)
        built == [i \in 1..Len(flat) |-> EmitResult(flat[i].level, flat[i].item, file_path)]
        less == [i \in 1..Len(flat) |-> [j \in 1..Len(flat) |->
                    EmitKeyLess(built[i], built[j])]]
    IN  IF \E i \in 1..Len(flat) : flat[i].item.message = <<>>
        THEN [raised |-> "KeyError", doc |-> <<>>]
        ELSE [raised |-> "",
              doc |-> <<[version |-> "2.1.0",
                         tool |-> [name |-> ToolName],
                         results |-> Arrange(built, StableOrder(Len(flat), less))]>>]


(***************************************************************************)
(* Values of the open details map. A value is a record of one shape:       *)
(* t is its Python type, s its text (str), n its number (int), kids its    *)
(* entries: for a dict the (k, val) pairs in insertion order, for a list   *)
(* the items, each under the key "".                                       *)
(***************************************************************************)

StrV(s) == [t |-> "str", s |-> s, n |-> 0, kids |-> <<>>]

IntV(n) == [t |-> "int", s |-> "", n |-> n, kids |-> <<>>]

NoneV == [t |-> "none", s |-> "", n |-> 0, kids |-> <<>>]

DictV(kids) == [t |-> "dict", s |-> "", n |-> 0, kids |-> kids]

ListV(items) ==
    [t |-> "list", s |-> "", n |-> 0,
     kids |-> [i \in 1..Len(items) |-> [k |-> "", val |-> items[i]]]]

Entry(k, val) == [k |-> k, val |-> val]

(***************************************************************************)
(* Sanitizer (env_integrity_check/sanitizer.py)                            *)
(***************************************************************************)

\* SENSITIVE_PATTERNS, joined with "|": each is a literal word but
\* api[_-]?key, which stands for three.
SENSITIVE_PATTERNS ==
    {"password", "secret", "token", "key", "api_key", "api-key", "apikey",
     "auth", "credential", "private", "passphrase"}

\* The default redaction_text of Sanitizer.__init__.
redaction_text == "***REDACTED***"

\* sensitive_pattern.search(key), compiled with re.IGNORECASE.
_is_sensitive_key(key) ==
    LET k == Lower(key) IN \E w \in SENSITIVE_PATTERNS : Contains(k, w)

\* ["'] of the regular expressions.
Quotes == {"\"", "'"}

\* \w of the regular expressions.
IsWordChar(c) ==
    /\ c \in CharSet
    /\ \/ Ord(c) >= 48 /\ Ord(c) <= 57
       \/ Ord(c) >= 65 /\ Ord(c) <= 90
       \/ Ord(c) >= 97 /\ Ord(c) <= 122
       \/ c = "_"

\* The first position from `from` on whose character is in stop, or
\* Len(t) + 1: where a greedy run of [^stop] that starts at `from` ends.
RunEnd(t, from, stop) ==
    LET hits == {k \in from..Len(t) : Ch(t, k) \in stop}
    IN  IF hits = {} THEN Len(t) + 1 ELSE CHOOSE k \in hits : \A h \in hits : k <= h

\* Where a greedy \s* that starts at `from` ends.
SkipSpace(t, from) ==
    LET others == {k \in from..Len(t) : Ch(t, k) \notin Whitespace}
    IN  IF others = {} THEN Len(t) + 1 ELSE CHOOSE k \in others : \A h \in others : k <= h

\* One of the sensitive words starts at position i, in any case.
WordAt(t, i) ==
    \E w \in SENSITIVE_PATTERNS :
        /\ i >= 1
        /\ i + Len(w) - 1 <= Len(t)
        /\ Lower(SubSeq(t, i, i + Len(w) - 1)) = w

\* The first pattern of _sanitize_text,
\*   (\b(?:WORDS)[^=\s]*)\s*=\s*["']?([^"'\s,;]+)["']?
\* tried at position i: whether it matches, where group 1 ends and where the
\* match ends (both exclusive). Every quantifier is greedy and none can give
\* a character back to what follows it, so the match is the one computed.
KeyValueMatch(t, i) ==
    LET g1 == RunEnd(t, i, Whitespace \cup {"="})
        eq == SkipSpace(t, g1)
        v0 == SkipSpace(t, eq + 1)
        v1 == IF v0 <= Len(t) /\ Ch(t, v0) \in Quotes THEN v0 + 1 ELSE v0
        v2 == RunEnd(t, v1, Quotes \cup Whitespace \cup {",", ";"})
        e  == IF v2 <= Len(t) /\ Ch(t, v2) \in Quotes THEN v2 + 1 ELSE v2
        ok == /\ i = 1 \/ ~IsWordChar(Ch(t, i - 1))
              /\ WordAt(t, i)
              /\ eq <= Len(t)
              /\ Ch(t, eq) = "="
              /\ v2 > v1
    IN  [ok |-> ok, g1 |-> IF ok THEN g1 ELSE i, end |-> IF ok THEN e ELSE i]

\* re.sub of the first pattern by group 1, "=" and the redaction text, from
\* position `from` on: the text up to the leftmost match is kept, the match
\* is replaced and the search goes on where the match ended.
RECURSIVE SubKeyValueFrom(_, _)
SubKeyValueFrom(t, from) ==
    LET starts == {p \in from..Len(t) : KeyValueMatch(t, p).ok}
    IN  IF starts = {} THEN SubSeq(t, from, Len(t))
        ELSE LET p == CHOOSE x \in starts : \A y \in starts : x <= y
                 m == KeyValueMatch(t, p)
             IN  SubSeq(t, from, m.g1 - 1) \o "=" \o redaction_text
                 \o SubKeyValueFrom(t, m.end)

\* The second pattern of _sanitize_text,
\*   (["'](?:WORDS)[^"']*["']\s*:\s*)["']([^"']+)["']
\* tried at position i.
QuotedKeyMatch(t, i) ==
    LET q  == RunEnd(t, i + 1, Quotes)
        c  == SkipSpace(t, q + 1)
        v0 == SkipSpace(t, c + 1)
        v2 == RunEnd(t, v0 + 1, Quotes)
        ok == /\ Ch(t, i) \in Quotes
              /\ WordAt(t, i + 1)
              /\ q <= Len(t)
              /\ c <= Len(t)
              /\ Ch(t, c) = ":"
              /\ v0 <= Len(t)
              /\ Ch(t, v0) \in Quotes
              /\ v2 <= Len(t)
              /\ v2 > v0 + 1
    IN  [ok |-> ok, g1 |-> IF ok THEN v0 ELSE i, end |-> IF ok THEN v2 + 1 ELSE i]

\* re.sub of the second pattern by group 1 and the quoted redaction text.
RECURSIVE SubQuotedKeyFrom(_, _)
SubQuotedKeyFrom(t, from) ==
    LET starts == {p \in from..Len(t) : QuotedKeyMatch(t, p).ok}
    IN  IF starts = {} THEN SubSeq(t, from, Len(t))
        ELSE LET p == CHOOSE x \in starts : \A y \in starts : x <= y
                 m == QuotedKeyMatch(t, p)
             IN  SubSeq(t, from, m.g1 - 1) \o "\"" \o redaction_text \o "\""
                 \o SubQuotedKeyFrom(t, m.end)

_sanitize_text(text) == SubQuotedKeyFrom(SubKeyValueFrom(text, 1), 1)

RECURSIVE _sanitize_value(_)
RECURSIVE _sanitize_entry(_, _)

\* The branches of _sanitize_dict and _sanitize_list for a value that is not
\* under a sensitive key: a dict and a list are sanitized entry by entry, a
\* str as text, anything else is kept.
_sanitize_value(v) ==
    CASE v.t = "dict" ->
            [v EXCEPT !.kids = [i \in 1..Len(v.kids) |->
                Entry(v.kids[i].k, _sanitize_entry(v.kids[i].k, v.kids[i].val))]]
      [] v.t = "list" ->
            [v EXCEPT !.kids = [i \in 1..Len(v.kids) |->
                Entry("", _sanitize_value(v.kids[i].val))]]
      [] v.t = "str" -> StrV(_sanitize_text(v.s))
      [] OTHER -> v

\* _sanitize_dict on one entry: under a sensitive key a non-empty str, a dict
\* and a list become the redaction text and every other value is kept.
_sanitize_entry(key, v) ==
    IF _is_sensitive_key(key)
    THEN IF (v.t = "str" /\ v.s # "") \/ v.t \in {"dict", "list"}
         THEN StrV(redaction_text)
         ELSE v
    ELSE _sanitize_value(v)

\* _sanitize_dict on the entries of a dict.
_sanitize_dict(data) == _sanitize_value(data)

\* sanitize_result: a copy with message and details sanitized.
sanitize_result(result) ==
    [result EXCEPT
        !.message = _sanitize_text(@),
        !.details = IF @ = <<>> THEN <<>> ELSE <<_sanitize_dict(@[1])>>]

\* sanitize_env_vars on one entry: under a sensitive key a dict with a
\* "value" key keeps its other keys and every other value becomes the
\* redaction text.
sanitize_env_var(key, v) ==
    IF _is_sensitive_key(key)
    THEN IF v.t = "dict" /\ \E i \in 1..Len(v.kids) : v.kids[i].k = "value"
         THEN [v EXCEPT !.kids = [i \in 1..Len(v.kids) |->
                  IF v.kids[i].k = "value" THEN Entry("value", StrV(redaction_text))
                  ELSE v.kids[i]]]
         ELSE StrV(redaction_text)
    ELSE v

(***************************************************************************)
(* The reporters called on bounded inputs.                                 *)
(***************************************************************************)

\* The longest list of findings handed to generate_report.
MaxFindings == 3

\* The file the report is about.
SourceFile == ".env"

\* Findings as SecretsScanner builds them: two rule ids that agree up to
\* their sixth character, the first on two lines and with two messages on
\* the first line, the second on line 1 as the scanner reports it.
ReportFindings ==
    {[rule_id |-> "secret-detected", level |-> "error", message |-> f.message,
      line |-> f.line, details |-> <<>>] :
        f \in {[message |-> "first", line |-> 1], [message |-> "second", line |-> 1],
               [message |-> "first", line |-> 2]}}
    \cup {[rule_id |-> "secrets-scan-error", level |-> "warning", message |-> "first",
           line |-> 1, details |-> <<>>]}

SeqsUpTo(S, n) == UNION {[1..k -> S] : k \in 0..n}

NoKey == <<>>

\* The entry _secrets_scan_impl returns when the engine fails.
ScanFailedItem ==
    [key |-> NoKey, message |-> NoKey, type |-> NoKey, line |-> NoKey,
     warning |-> <<"detect-secrets failed">>]

\* The findings dicts handed to emit_sarif, of items as validate_env and
\* _secrets_scan_impl build them.
EmitInputs ==
    LET PlaceholderItem ==
            [key |-> <<"DATABASE_URL">>,
             message |-> <<"Contains placeholder or empty value.">>,
             type |-> NoKey, line |-> NoKey, warning |-> NoKey]
        ValidationItem(key, type) ==
            [key |-> <<key>>, message |-> <<"Input should be a valid integer">>,
             type |-> <<type>>, line |-> NoKey, warning |-> NoKey]
        SecretItem(line) ==
            [key |-> NoKey, message |-> <<"Potential secret detected">>,
             type |-> <<"Secret Keyword">>, line |-> <<line>>, warning |-> NoKey]
    IN  {<<[section |-> "errors", items |-> <<ValidationItem("PORT", "int_parsing"),
                                              ValidationItem("API_KEY", "int_parsing")>>],
           [section |-> "warnings", items |-> <<PlaceholderItem>>],
           [section |-> "secrets", items |-> <<SecretItem(2), SecretItem(1)>>]>>,
         <<[section |-> "warnings", items |-> <<PlaceholderItem>>],
           [section |-> "errors", items |-> <<>>]>>}

ReportInit ==
    /\ results \in SeqsUpTo(ReportFindings, MaxFindings)
    /\ shuffled = results
    /\ findings \in EmitInputs
    /\ out = [gen |-> <<>>, genS |-> <<>>, emit |-> <<>>, shuffles |-> 0]
    /\ CallIdle
    /\ RunIdle

\* The caller shuffles the list before it runs the aggregator again.
Shuffle ==
    /\ out.shuffles = 0
    /\ Len(out.emit) = 2
    /\ shuffled' \in {[i \in 1..Len(results) |-> results[p[i]]] :
                        p \in {q \in [1..Len(results) -> 1..Len(results)] :
                                  \A i, j \in 1..Len(results) : i # j => q[i] # q[j]}}
    /\ out' = [out EXCEPT !.shuffles = 1]
    /\ UNCHANGED <<results, findings>>
    /\ UNCHANGED notReportVars

FindingKeyLess(a, b) ==
    \/ StrLess(a.rule_id, b.rule_id)
    \/ a.rule_id = b.rule_id /\ a.line < b.line

\* A generate_report that sorts the caller's list in place.
GenerateReportInPlace ==
    /\ out.shuffles = 1
    /\ Len(out.gen) < 2
    /\ out' = [out EXCEPT !.gen = Append(@, generate_report(results, SourceFile, <<>>))]
    /\ results' = Arrange(results, StableOrder(Len(results),
                        [i \in 1..Len(results) |-> [j \in 1..Len(results) |->
                            FindingKeyLess(results[i], results[j])]]))
    /\ UNCHANGED <<shuffled, findings>>
    /\ UNCHANGED notReportVars

\* reporter.generate_report(results, source_file): the call builds a new list
\* and sorts that one.
GenerateReport ==
    /\ out.shuffles = 1
    /\ Len(out.gen) < 2
    /\ out' = [out EXCEPT !.gen = Append(@, generate_report(results, SourceFile, <<>>))]
    /\ UNCHANGED <<results, shuffled, findings>>
    /\ UNCHANGED notReportVars

\* reporter.generate_report(shuffled, source_file)
GenerateReportShuffled ==
    /\ Len(out.gen) = 2
    /\ out.genS = <<>>
    /\ out' = [out EXCEPT !.genS = <<generate_report(shuffled, SourceFile, <<>>)>>]
    /\ UNCHANGED <<results, shuffled, findings>>
    /\ UNCHANGED notReportVars

\* emit_sarif(findings, file_path, policy)
EmitSarif ==
    /\ Len(out.emit) < 2
    /\ out' = [out EXCEPT !.emit = Append(@, emit_sarif(findings, SourceFile))]
    /\ UNCHANGED <<results, shuffled, findings>>
    /\ UNCHANGED notReportVars

ReportNext == Shuffle \/ GenerateReport \/ GenerateReportShuffled \/ EmitSarif

SpecReport == ReportInit /\ [][ReportNext]_vars


(***************************************************************************)
(* The sanitizers called on one key and one value.                         *)
(***************************************************************************)

\* Keys with and without a word of the sensitive vocabulary.
SanitizeKeys ==
    {"password", "API_KEY", "secret_token", "Authorization", "PASSPHRASE",
     "ssl_cert", "username", "app_name"}

\* Values of every type the details map and the fact table hold.
SanitizeValues ==
    {StrV("hunter2"), StrV("key=hunter2"), StrV(""), IntV(42), NoneV,
     DictV(<<Entry("value", StrV("hunter2")), Entry("line", IntV(3))>>), ListV(<<StrV("hunter2")>>),
     DictV(<<Entry("password", StrV("hunter2")), Entry("port", IntV(42))>>)}

SanitizeInit ==
    /\ arg \in [key : SanitizeKeys, value : SanitizeValues]
    /\ ret = [env_vars |-> <<>>, dict |-> <<>>, sarif |-> <<>>]
    /\ ReportIdle
    /\ RunIdle

\* Sanitizer().sanitize_env_vars({key: value})
SanitizeEnvVars ==
    /\ ret.env_vars = <<>>
    /\ ret' = [ret EXCEPT !.env_vars = <<sanitize_env_var(arg.key, arg.value)>>]
    /\ UNCHANGED arg
    /\ UNCHANGED notCallVars

\* Sanitizer()._sanitize_dict({key: value})
SanitizeDict ==
    /\ ret.dict = <<>>
    /\ ret' = [ret EXCEPT !.dict = <<_sanitize_entry(arg.key, arg.value)>>]
    /\ UNCHANGED arg
    /\ UNCHANGED notCallVars

\* sanitize_for_sarif(key, value, rule_id), whose value is a str.
SanitizeForSarif ==
    /\ ret.sarif = <<>>
    /\ arg.value.t = "str"
    /\ ret' = [ret EXCEPT !.sarif = <<StrV(sanitize_for_sarif(arg.key, arg.value.s, "ENV003"))>>]
    /\ UNCHANGED arg
    /\ UNCHANGED notCallVars

SanitizeNext == SanitizeEnvVars \/ SanitizeDict \/ SanitizeForSarif

SpecSanitize == SanitizeInit /\ [][SanitizeNext]_vars

(***************************************************************************)
(* SecretsScanner (env_integrity_check/secrets_scanner.py). The fact table *)
(* is the sequence of its facts (key, value, line) in insertion order. The *)
(* detect-secrets engine is given by the hits it reports and may raise an  *)
(* Exception at every call made to it.                                     *)
(***************************************************************************)

\* A lookup that takes the last fact at or before the line.
_find_var_at_lineOrBefore(facts, line_num) ==
    LET on == {i \in 1..Len(facts) : facts[i].line <= line_num}
    IN  IF on = {} THEN ""
        ELSE facts[CHOOSE i \in on : \A j \in on : facts[j].line <= facts[i].line].key

\* _find_var_at_line: the key of the first fact on that line, "" if none.
_find_var_at_line(facts, line_num) ==
    LET on == {i \in 1..Len(facts) : facts[i].line = line_num}
    IN  IF on = {} THEN ""
        ELSE facts[CHOOSE i \in on : \A j \in on : i <= j].key

\* The finding scan_env_file appends for one hit.
SecretFinding(secret, facts) ==
    LET var_name == _find_var_at_line(facts, secret.line_number)
    IN  [rule_id |-> "secret-detected",
         level |-> "error",
         message |-> "Potential " \o secret.type \o " detected in "
                     \o (IF var_name # "" THEN var_name ELSE "environment file"),
         line |-> secret.line_number,
         details |-> <<DictV(<<Entry("secret_type", StrV(secret.type)),
                               Entry("variable", StrV(var_name))>>)>>]

\* The finding scan_env_content appends for one hit.
SecretFindingOfContent(secret) ==
    [rule_id |-> "secret-detected",
     level |-> "error",
     message |-> "Potential " \o secret.type \o " detected",
     line |-> secret.line_number,
     details |-> <<DictV(<<Entry("secret_type", StrV(secret.type))>>)>>]

\* The finding both except clauses append; error is str(e).
ScanErrorFinding(error) ==
    [rule_id |-> "secrets-scan-error",
     level |-> "warning",
     message |-> "Secrets scanning encountered an error: " \o error,
     line |-> 1,
     details |-> <<>>]

\* An except clause that lets the exception go on to the caller.
ScanExceptReraise(scan, error) == [scan EXCEPT !.pc = "raised", !.failed = TRUE]

\* except Exception as e: append the finding and go on to return results.
ScanExcept(scan, error) ==
    [scan EXCEPT !.results = Append(@, ScanErrorFinding(error)),
                 !.pc = "returned",
                 !.failed = TRUE]

\* The most hits the engine reports.
MaxHits == 2

\* What str(e) is for the exceptions of the engine.
EngineErrors == {"engine crashed", "No such file or directory"}

\* A call of a scan method: the fact table it is given and what the engine
\* reports, each hit a type and a line number.
ScanInit ==
    /\ arg \in [method : {"scan_env_file", "scan_env_content"},
                env_vars : {<<>>,
                            <<[key |-> "APP_NAME", value |-> "myapp", line |-> 1],
                              [key |-> "API_KEY", value |-> "hunter2", line |-> 2]>>},
                hits : SeqsUpTo({[type |-> "Secret Keyword", line_number |-> 1],
                                 [type |-> "Secret Keyword", line_number |-> 2],
                                 [type |-> "Base64 High Entropy String",
                                  line_number |-> 2]}, MaxHits)]
    /\ ret = [pc |-> "create", results |-> <<>>, next |-> 1, failed |-> FALSE]
    /\ ReportIdle
    /\ RunIdle

\* scan_env_content: the content is written to a temporary file.
ScanWriteTemp ==
    /\ arg.method = "scan_env_content"
    /\ ret.pc = "create"
    /\ \/ ret' = [ret EXCEPT !.pc = "collection"]
       \/ \E e \in EngineErrors : ret' = ScanExcept(ret, e)
    /\ UNCHANGED arg
    /\ UNCHANGED notCallVars

\* secrets = SecretsCollection()
ScanCollection ==
    /\ \/ arg.method = "scan_env_file" /\ ret.pc = "create"
       \/ arg.method = "scan_env_content" /\ ret.pc = "collection"
    /\ \/ ret' = [ret EXCEPT !.pc = IF arg.method = "scan_env_file" THEN "open" ELSE "scan"]
       \/ \E e \in EngineErrors : ret' = ScanExcept(ret, e)
    /\ UNCHANGED arg
    /\ UNCHANGED notCallVars

\* scan_env_file: with open(file_path, "r") as f
ScanOpen ==
    /\ ret.pc = "open"
    /\ \/ ret' = [ret EXCEPT !.pc = "scan"]
       \/ \E e \in EngineErrors : ret' = ScanExcept(ret, e)
    /\ UNCHANGED arg
    /\ UNCHANGED notCallVars

\* secrets.scan_file(...)
ScanFile ==
    /\ ret.pc = "scan"
    /\ \/ ret' = [ret EXCEPT !.pc = "hits"]
       \/ \E e \in EngineErrors : ret' = ScanExcept(ret, e)
    /\ UNCHANGED arg
    /\ UNCHANGED notCallVars

\* One turn of the loop over the hits: the hit is read and its finding is
\* appended, or reading it raises.
ScanHit ==
    /\ ret.pc = "hits"
    /\ ret.next <= Len(arg.hits)
    /\ \/ ret' = [ret EXCEPT
                    !.results = Append(@,
                        IF arg.method = "scan_env_file"
                        THEN SecretFinding(arg.hits[ret.next], arg.env_vars)
                        ELSE SecretFindingOfContent(arg.hits[ret.next])),
                    !.next = @ + 1]
       \/ \E e \in EngineErrors : ret' = ScanExcept(ret, e)
    /\ UNCHANGED arg
    /\ UNCHANGED notCallVars

\* The loop is over: scan_env_file returns results, scan_env_content removes
\* the temporary file first.
ScanHitsDone ==
    /\ ret.pc = "hits"
    /\ ret.next > Len(arg.hits)
    /\ ret' = [ret EXCEPT !.pc = IF arg.method = "scan_env_file" THEN "returned" ELSE "unlink"]
    /\ UNCHANGED arg
    /\ UNCHANGED notCallVars

\* scan_env_content: tmp_path.unlink()
ScanUnlink ==
    /\ ret.pc = "unlink"
    /\ \/ ret' = [ret EXCEPT !.pc = "returned"]
       \/ \E e \in EngineErrors : ret' = ScanExcept(ret, e)
    /\ UNCHANGED arg
    /\ UNCHANGED notCallVars

ScanNext ==
    \/ ScanWriteTemp
    \/ ScanCollection
    \/ ScanOpen
    \/ ScanFile
    \/ ScanHit
    \/ ScanHitsDone
    \/ ScanUnlink

SpecScan == ScanInit /\ [][ScanNext]_vars

(***************************************************************************)
(* main (env_integrity_check/cli.py) and what it calls: parse_env_file,    *)
(* SchemaIntrospector, PolicyLoader, validate_policy, Metrics.             *)
(***************************************************************************)

\* An assignment that moves the key it sets to the end of the table.
SetFactMovedLast(facts, key, value, line) ==
    Append(SelectSeq(facts, LAMBDA f : f.key # key),
           [key |-> key, value |-> value, line |-> line])

\* env_vars[key] = {"value": value, "line": line_num}: a key the table holds
\* keeps its place and takes the new value and line, a new key goes last.
SetFact(facts, key, value, line) ==
    IF \E i \in 1..Len(facts) : facts[i].key = key
    THEN [i \in 1..Len(facts) |->
             IF facts[i].key = key THEN [key |-> key, value |-> value, line |-> line]
             ELSE facts[i]]
    ELSE Append(facts, [key |-> key, value |-> value, line |-> line])

\* The quotes around a value are removed when its first and last character
\* are the same quote, which they are in a value of one quote character.
Unquote(value) ==
    IF value # "" /\ Ch(value, 1) = Ch(value, Len(value)) /\ Ch(value, 1) \in {"\"", "'"}
    THEN SubSeq(value, 2, Len(value) - 1)
    ELSE value

\* A parser that splits a line at its last "=".
parse_env_fileAtLastEq(content) ==
    LET lines == SplitLines(content)
        parsed[n \in 0..Len(lines)] ==
            IF n = 0 THEN <<>>
            ELSE LET line == Strip(lines[n])
                     at == {i \in 1..Len(line) : Ch(line, i) = "="}
                     p == CHOOSE i \in at : \A j \in at : i >= j
                 IN  IF line = "" \/ Ch(line, 1) = "#" \/ at = {} THEN parsed[n - 1]
                     ELSE SetFact(parsed[n - 1], Strip(SubSeq(line, 1, p - 1)),
                                  Unquote(Strip(SubSeq(line, p + 1, Len(line)))), n)
    IN  parsed[Len(lines)]

parse_env_file(content) ==
    LET lines == SplitLines(content)
        parsed[n \in 0..Len(lines)] ==
            IF n = 0 THEN <<>>
            ELSE LET line == Strip(lines[n])
                     parts == Partition(line, "=")
                 IN  IF line = "" \/ Ch(line, 1) = "#" THEN parsed[n - 1]
                     ELSE IF parts.found
                          THEN SetFact(parsed[n - 1], Strip(parts.before),
                                       Unquote(Strip(parts.after)), n)
                          ELSE parsed[n - 1]
    IN  parsed[Len(lines)]

\* "key in env_vars"
HasFact(facts, key) == \E i \in 1..Len(facts) : facts[i].key = key

\* env_vars[key]
FactOf(facts, key) == facts[CHOOSE i \in 1..Len(facts) : facts[i].key = key]

\* The text is a decimal integer, which is what the int fields of the model
\* class accept of a text.
IsIntText(t) ==
    LET digits == IF t # "" /\ Ch(t, 1) \in {"+", "-"} THEN SubSeq(t, 2, Len(t)) ELSE t
    IN  /\ digits # ""
        /\ \A i \in 1..Len(digits) : Ch(digits, i) \in {Ch("0123456789", d) : d \in 1..10}

\* e.errors() of self.model_class(**env_values), in the order of the fields:
\* a value that is not of the type of its field is an error whose input is
\* the value, a required field without a value is an error whose input is
\* the whole of env_values.
ValidationErrors(model_fields, facts) ==
    LET env_values == DictV([i \in 1..Len(facts) |-> Entry(facts[i].key, StrV(facts[i].value))])
        errors[n \in 0..Len(model_fields)] ==
            IF n = 0 THEN <<>>
            ELSE LET f == model_fields[n]
                 IN  IF HasFact(facts, f.name)
                     THEN IF f.type = "int" /\ ~IsIntText(FactOf(facts, f.name).value)
                          THEN Append(errors[n - 1],
                                  [loc |-> f.name,
                                   msg |-> "Input should be a valid integer, "
                                           \o "unable to parse string as an integer",
                                   type |-> "int_parsing",
                                   input |-> StrV(FactOf(facts, f.name).value)])
                          ELSE errors[n - 1]
                     ELSE IF f.required
                          THEN Append(errors[n - 1],
                                  [loc |-> f.name, msg |-> "Field required",
                                   type |-> "missing", input |-> env_values])
                          ELSE errors[n - 1]
    IN  errors[Len(model_fields)]

\* A validation whose check for missing fields runs only when the model
\* class accepted the values.
validate_env_varsShortCircuit(model_fields, facts) ==
    LET errors == ValidationErrors(model_fields, facts)
    IN  IF errors # <<>>
        THEN [n \in 1..Len(errors) |->
                 [rule_id |-> "schema-validation",
                  level |-> "error",
                  message |-> errors[n].loc \o ": " \o errors[n].msg,
                  line |-> IF HasFact(facts, errors[n].loc)
                           THEN FactOf(facts, errors[n].loc).line ELSE 1,
                  details |-> <<DictV(<<Entry("field", StrV(errors[n].loc)),
                                        Entry("error_type", StrV(errors[n].type)),
                                        Entry("input", errors[n].input)>>)>>]]
        ELSE <<>>

\* SchemaIntrospector.validate_env_vars
validate_env_vars(model_fields, facts) ==
    LET errors == ValidationErrors(model_fields, facts)
        violations ==
            [n \in 1..Len(errors) |->
                [rule_id |-> "schema-validation",
                 level |-> "error",
                 message |-> errors[n].loc \o ": " \o errors[n].msg,
                 line |-> IF HasFact(facts, errors[n].loc)
                          THEN FactOf(facts, errors[n].loc).line ELSE 1,
                 details |-> <<DictV(<<Entry("field", StrV(errors[n].loc)),
                                       Entry("error_type", StrV(errors[n].type)),
                                       Entry("input", errors[n].input)>>)>>]]
        missing[n \in 0..Len(model_fields)] ==
            IF n = 0 THEN <<>>
            ELSE IF model_fields[n].required /\ ~HasFact(facts, model_fields[n].name)
                 THEN Append(missing[n - 1],
                         [rule_id |-> "missing-required-field",
                          level |-> "error",
                          message |-> "Required field '" \o model_fields[n].name
                                      \o "' is missing",
                          line |-> 1,
                          details |-> <<DictV(<<Entry("field",
                                                      StrV(model_fields[n].name))>>)>>])
                 ELSE missing[n - 1]
    IN  violations \o missing[Len(model_fields)]

\* A handler that catches every class, as a bare "except:" does.
CaughtByBareExcept(class) == TRUE

\* The classes "except Exception" catches: all but those that derive from
\* BaseException alone.
CaughtByExceptException(class) ==
    class \notin {"SystemExit", "KeyboardInterrupt", "GeneratorExit"}

\* An exception, and the exit code it ends the run with if no handler
\* catches it.
Error(class, message) == [class |-> class, message |-> message, code |-> 1]

\* "key in d" and d[key] of a dict value.
HasKey(d, key) == \E i \in 1..Len(d.kids) : d.kids[i].k = key

ValueOf(d, key) == d.kids[CHOOSE i \in 1..Len(d.kids) : d.kids[i].k = key].val

\* The error of re.compile(regex), <<>> when it compiles, for a regex
\* written with characters, ".", "*", "^", "$" and brackets: a "*" needs
\* something before it that can repeat, a "(" its ")", a ")" its "(", and a
\* "[" a "]" after its first member.
re_compile_error(regex) ==
    LET n == Len(regex)
        count(c, from, to) == Cardinality({j \in from..to : Ch(regex, j) = c})
        stars == {i \in 1..n : /\ Ch(regex, i) = "*"
                               /\ (i = 1 \/ Ch(regex, i - 1) \in {"^", "$", "(", "*"})}
        open == {i \in 1..n : /\ Ch(regex, i) = "("
                              /\ count(")", i, n) < count("(", i, n)}
        close == {i \in 1..n : /\ Ch(regex, i) = ")"
                               /\ count("(", 1, i) < count(")", 1, i)}
        sets == {i \in 1..n : /\ Ch(regex, i) = "["
                              /\ \A j \in (i + 2)..n : Ch(regex, j) # "]"}
        first(S) == CHOOSE i \in S : \A j \in S : i <= j
        at(S) == " at position " \o Decimal(first(S) - 1)
    IN  CASE stars # {} ->
                <<(IF first(stars) > 1 /\ Ch(regex, first(stars) - 1) = "*"
                   THEN "multiple repeat" ELSE "nothing to repeat") \o at(stars)>>
          [] sets # {} -> <<"unterminated character set" \o at(sets)>>
          [] open # {} -> <<"missing ), unterminated subpattern" \o at(open)>>
          [] close # {} -> <<"unbalanced parenthesis" \o at(close)>>
          [] OTHER -> <<>>

valid_sections == {"required", "forbidden", "patterns", "metadata"}

\* A validation that looks at the names of the sections only.
_validate_policySectionsOnly(policy) ==
    IF policy.t # "dict"
    THEN <<Error("AttributeError", "'" \o policy.t \o "' object has no attribute 'keys'")>>
    ELSE IF \E i \in 1..Len(policy.kids) : policy.kids[i].k \notin valid_sections
         THEN <<Error("ValueError", "Invalid policy section")>>
         ELSE <<>>

\* PolicyLoader._validate_policy: the exception it raises, which is a
\* ValueError, or the AttributeError of policy.keys() when the document is
\* not a mapping, and <<>> when it returns.
_validate_policy(policy) ==
    LET invalid == {i \in 1..Len(policy.kids) : policy.kids[i].k \notin valid_sections}
        names(section) ==
            IF ~HasKey(policy, section) THEN <<>>
            ELSE IF ValueOf(policy, section).t # "list"
                 THEN <<Error("ValueError", "'" \o section \o "' section must be a list")>>
                 ELSE IF \E i \in 1..Len(ValueOf(policy, section).kids) :
                            ValueOf(policy, section).kids[i].val.t # "str"
                      THEN <<Error("ValueError",
                                   "Items in '" \o section \o "' must be strings")>>
                      ELSE <<>>
        of(pattern) ==
            IF pattern.t # "dict"
            THEN <<Error("ValueError", "Items in 'patterns' must be dictionaries")>>
            ELSE IF ~HasKey(pattern, "regex")
            THEN <<Error("ValueError", "Pattern must have 'regex' field")>>
            ELSE IF ValueOf(pattern, "regex").t # "str"
            THEN <<Error("ValueError", "Pattern 'regex' must be a string")>>
            ELSE IF re_compile_error(ValueOf(pattern, "regex").s) # <<>>
            THEN <<Error("ValueError",
                         "Invalid regex pattern '" \o ValueOf(pattern, "regex").s
                         \o "': " \o re_compile_error(ValueOf(pattern, "regex").s)[1])>>
            ELSE <<>>
        patterns ==
            IF ~HasKey(policy, "patterns") THEN <<>>
            ELSE IF ValueOf(policy, "patterns").t # "list"
                 THEN <<Error("ValueError", "'patterns' section must be a list")>>
                 ELSE LET items == ValueOf(policy, "patterns").kids
                          failing == {i \in 1..Len(items) : of(items[i].val) # <<>>}
                      IN  IF failing = {} THEN <<>>
                          ELSE of(items[CHOOSE i \in failing : \A j \in failing : i <= j].val)
    IN  CASE policy.t # "dict" ->
                <<Error("AttributeError",
                        "'" \o policy.t \o "' object has no attribute 'keys'")>>
          [] invalid # {} ->
                <<Error("ValueError",
                        "Invalid policy section: "
                        \o policy.kids[CHOOSE i \in invalid : \A j \in invalid : i <= j].k)>>
          [] names("required") # <<>> -> names("required")
          [] names("forbidden") # <<>> -> names("forbidden")
          [] OTHER -> patterns

\* A policy file is given by what open and yaml.safe_load make of it:
\* "unreadable" when open raises, "error" when safe_load raises, else
\* "loaded" and the document as a value, None for a file without content.
\* PolicyLoader.load: what is raised inside the try block goes through the
\* two handlers, which raise a ValueError for what they catch.
PolicyLoad(file) ==
    LET body ==
            CASE file.yaml = "unreadable" ->
                    <<Error("FileNotFoundError", "[Errno 2] No such file or directory")>>
              [] file.yaml = "error" -> <<Error("YAMLError", "could not parse")>>
              [] file.doc = NoneV -> <<Error("ValueError", "Policy file is empty")>>
              [] OTHER -> _validate_policy(file.doc)
    IN  IF body = <<>> THEN [raised |-> <<>>, policy |-> <<file.doc>>]
        ELSE IF body[1].class = "YAMLError"
             THEN [raised |-> <<Error("ValueError", "Invalid YAML in policy file: "
                                                    \o body[1].message)>>,
                   policy |-> <<>>]
             ELSE IF CaughtByExceptException(body[1].class)
                  THEN [raised |-> <<Error("ValueError", "Error loading policy: "
                                                         \o body[1].message)>>,
                        policy |-> <<>>]
                  ELSE [raised |-> body, policy |-> <<>>]

\* The rest of the pattern from i matches the rest of the name from j, for
\* patterns of characters, ".", "x*" and a last "$".
RECURSIVE ReMatchHere(_, _, _, _)
ReMatchHere(re, i, name, j) ==
    IF i > Len(re) THEN TRUE
    ELSE IF i < Len(re) /\ Ch(re, i + 1) = "*"
         THEN \E k \in j..(Len(name) + 1) :
                 /\ \A m \in j..(k - 1) : Ch(re, i) \in {".", Ch(name, m)}
                 /\ ReMatchHere(re, i + 2, name, k)
         ELSE IF i = Len(re) /\ Ch(re, i) = "$" THEN j = Len(name) + 1
              ELSE /\ j <= Len(name)
                   /\ Ch(re, i) \in {".", Ch(name, j)}
                   /\ ReMatchHere(re, i + 1, name, j + 1)

\* A match of the whole name, as re.fullmatch gives.
ReFullMatch(re, name) ==
    ReMatchHere(IF re # "" /\ Ch(re, Len(re)) = "$" THEN re ELSE re \o "$",
                IF re # "" /\ Ch(re, 1) = "^" THEN 2 ELSE 1, name, 1)

\* re.compile(regex).match(name): a match at the start of the name.
ReMatch(re, name) ==
    ReMatchHere(re, IF re # "" /\ Ch(re, 1) = "^" THEN 2 ELSE 1, name, 1)

PolicyFinding(rule_id, level, message, line) ==
    [rule_id |-> rule_id, level |-> level, message |-> message, line |-> line,
     details |-> <<>>]

\* validate_policy: the policy is the document PolicyLoader.load returned.
validate_policy(facts, policy) ==
    LET items(section) ==
            IF HasKey(policy, section) THEN ValueOf(policy, section).kids ELSE <<>>
        name(section, n) == items(section)[n].val.s
        required[n \in 0..Len(items("required"))] ==
            IF n = 0 THEN <<>>
            ELSE IF ~HasFact(facts, name("required", n))
                 THEN Append(required[n - 1],
                         PolicyFinding("missing-required-var", "error",
                             "Required environment variable '" \o name("required", n)
                             \o "' is missing", 1))
                 ELSE required[n - 1]
        forbidden[n \in 0..Len(items("forbidden"))] ==
            IF n = 0 THEN <<>>
            ELSE IF HasFact(facts, name("forbidden", n))
                 THEN Append(forbidden[n - 1],
                         PolicyFinding("forbidden-var", "error",
                             "Forbidden environment variable '" \o name("forbidden", n)
                             \o "' is present", FactOf(facts, name("forbidden", n)).line))
                 ELSE forbidden[n - 1]
        ofRule(rule) ==
            LET matched[n \in 0..Len(facts)] ==
                    IF n = 0 THEN <<>>
                    ELSE IF /\ ReMatch(ValueOf(rule, "regex").s, facts[n].key)
                            /\ HasKey(rule, "action")
                            /\ ValueOf(rule, "action") = StrV("warn")
                         THEN Append(matched[n - 1],
                                 PolicyFinding("pattern-match", "warning",
                                     IF HasKey(rule, "message") THEN ValueOf(rule, "message").s
                                     ELSE "Variable '" \o facts[n].key \o "' matches pattern",
                                     facts[n].line))
                         ELSE matched[n - 1]
            IN  matched[Len(facts)]
        patterns[n \in 0..Len(items("patterns"))] ==
            IF n = 0 THEN <<>> ELSE patterns[n - 1] \o ofRule(items("patterns")[n].val)
    IN  required[Len(items("required"))] \o forbidden[Len(items("forbidden"))]
        \o patterns[Len(items("patterns"))]

\* Metrics(): the timestamp is the time of the call.
NewMetrics(now) ==
    [timestamp |-> now, file_size_bytes |-> 0, env_var_count |-> 0, schema_violations |-> 0,
     secrets_found |-> 0, policy_violations |-> 0, policy_loaded |-> FALSE]

\* SecretsScanner.scan_env_file as one call: the findings of the hits read
\* before the engine failed, if it did, and then the finding of the failure.
scan_env_file(facts, engine) ==
    LET read == IF engine.fails = <<>> THEN Len(engine.hits) ELSE engine.fails[1]
    IN  [n \in 1..read |-> SecretFinding(engine.hits[n], facts)]
        \o (IF engine.fails = <<>> THEN <<>> ELSE <<ScanErrorFinding("engine crashed")>>)

\* An exception raised inside the try block of main: the handler echoes it
\* to the error stream and exits with status 2 if it catches the class, else
\* the exception leaves main, and a SystemExit ends the run with its code.
MainRaise(stage, e) ==
    /\ raised' = Append(raised, [stage |-> stage, class |-> e.class])
    /\ IF CaughtByExceptException(e.class)
       THEN /\ stderr' = Append(stderr, "Error: " \o e.message)
            /\ exit_status' = <<2>>
       ELSE /\ stderr' = stderr
            /\ exit_status' = <<e.code>>
    /\ pc' = "exited"

\* The files and options of the runs.
EnvFiles ==
    {[readable |-> FALSE, content |-> ""],
     [readable |-> TRUE, content |-> ""],
     [readable |-> TRUE, content |-> "PORT=8080\nSECRET_KEY=12"],
     [readable |-> TRUE, content |-> "SECRET_KEY=hunter2"],
     [readable |-> TRUE, content |-> "DEBUG=1\nTEST_TOKEN='hunter2'"]}

SchemaFiles ==
    {[loadable |-> FALSE, model_fields |-> <<>>],
     [loadable |-> TRUE,
      model_fields |-> <<[name |-> "PORT", type |-> "int", required |-> FALSE],
                         [name |-> "SECRET_KEY", type |-> "int", required |-> TRUE]>>]}

\* Policy files: not YAML, without content, with a section that is not a
\* policy section, an empty mapping, and a policy of three sections.
PolicyFiles ==
    {[yaml |-> "error", doc |-> NoneV],
     [yaml |-> "loaded", doc |-> NoneV],
     [yaml |-> "loaded",
      doc |-> DictV(<<Entry("metadata", DictV(<<>>)), Entry("rules", ListV(<<>>))>>)],
     [yaml |-> "loaded", doc |-> DictV(<<>>)],
     [yaml |-> "loaded",
      doc |-> DictV(<<Entry("required", ListV(<<StrV("SECRET_KEY"), StrV("APP_NAME")>>)),
                      Entry("forbidden", ListV(<<StrV("DEBUG")>>)),
                      Entry("patterns",
                            ListV(<<DictV(<<Entry("regex", StrV("^TEST_.*")),
                                            Entry("action", StrV("warn"))>>)>>))>>)]}

Optional(S) == {<<>>} \cup {<<x>> : x \in S}

MainOptions ==
    [env_file : EnvFiles, schema : Optional(SchemaFiles), policy : Optional(PolicyFiles),
     output : Optional({"report.sarif"}), sanitize : BOOLEAN, detect_secrets : BOOLEAN,
     metrics : BOOLEAN]

\* What the engine does in a run: the hits it reports and, if it fails, the
\* number of hits read before it does.
MainEngines ==
    {[hits |-> <<>>, fails |-> <<>>],
     [hits |-> <<[type |-> "Secret Keyword", line_number |-> 1]>>, fails |-> <<>>],
     [hits |-> <<>>, fails |-> <<0>>],
     [hits |-> <<[type |-> "Secret Keyword", line_number |-> 2],
                 [type |-> "Base64 High Entropy String", line_number |-> 1]>>,
      fails |-> <<1>>]}

MainInit ==
    /\ opts \in MainOptions
    /\ pc = "start"
    /\ env_vars = <<>> /\ policy_rules = <<>> /\ metrics = <<>> /\ sarif_output = <<>>
    /\ stdout = <<>> /\ stderr = <<>> /\ written = <<>> /\ raised = <<>> /\ ran = <<>>
    /\ exit_status = <<>>
    /\ ReportIdle
    /\ CallIdle

\* metrics_collector = Metrics(); sanitizer = ...; results = []; the
\* timestamp is what datetime.now() gives.
MainStart ==
    /\ pc = "start"
    /\ \E now \in {"2024-01-01T00:00:00+00:00", "2024-01-01T00:00:01+00:00"} :
          metrics' = NewMetrics(now)
    /\ results' = <<>>
    /\ pc' = "read"
    /\ UNCHANGED <<opts, env_vars, policy_rules, sarif_output, stdout, stderr, written,
                   raised, ran, exit_status>>
    /\ UNCHANGED notMainVars

\* A read that takes a file it cannot read for an empty one.
MainReadOrEmpty ==
    /\ pc = "read"
    /\ metrics' = [metrics EXCEPT !.file_size_bytes = Len(opts.env_file.content)]
    /\ pc' = "parse"
    /\ UNCHANGED <<results, opts, env_vars, policy_rules, sarif_output, stdout, stderr,
                   written, raised, ran, exit_status>>
    /\ UNCHANGED notMainVars

\* env_content = env_file.read_text(), which raises on a file it cannot read.
MainRead ==
    /\ pc = "read"
    /\ IF opts.env_file.readable
       THEN /\ metrics' = [metrics EXCEPT !.file_size_bytes = Len(opts.env_file.content)]
            /\ pc' = "parse"
            /\ UNCHANGED <<stderr, raised, exit_status>>
       ELSE /\ MainRaise("read", Error("PermissionError", "Permission denied"))
            /\ UNCHANGED metrics
    /\ UNCHANGED <<results, opts, env_vars, policy_rules, sarif_output, stdout, written, ran>>
    /\ UNCHANGED notMainVars

\* env_vars = parse_env_file(env_content)
MainParse ==
    /\ pc = "parse"
    /\ env_vars' = parse_env_file(opts.env_file.content)
    /\ metrics' = [metrics EXCEPT !.env_var_count = Len(env_vars')]
    /\ pc' = "load_policy"
    /\ UNCHANGED <<results, opts, policy_rules, sarif_output, stdout, stderr, written,
                   raised, ran, exit_status>>
    /\ UNCHANGED notMainVars

\* if policy: policy_rules = PolicyLoader(policy).load()
MainLoadPolicy ==
    /\ pc = "load_policy"
    /\ IF opts.policy = <<>>
       THEN /\ pc' = "schema"
            /\ UNCHANGED <<policy_rules, metrics, stderr, raised, exit_status>>
       ELSE LET loaded == PolicyLoad(opts.policy[1])
            IN  IF loaded.raised = <<>>
                THEN /\ policy_rules' = loaded.policy
                     /\ metrics' = [metrics EXCEPT !.policy_loaded = TRUE]
                     /\ pc' = "schema"
                     /\ UNCHANGED <<stderr, raised, exit_status>>
                ELSE /\ MainRaise("load_policy", loaded.raised[1])
                     /\ UNCHANGED <<policy_rules, metrics>>
    /\ UNCHANGED <<results, opts, env_vars, sarif_output, stdout, written, ran>>
    /\ UNCHANGED notMainVars

\* if schema: SchemaIntrospector(schema), which raises on a module it cannot
\* load, and validate_env_vars.
MainSchema ==
    /\ pc = "schema"
    /\ IF opts.schema = <<>>
       THEN /\ pc' = "secrets"
            /\ UNCHANGED <<results, metrics, ran, stderr, raised, exit_status>>
       ELSE IF opts.schema[1].loadable
            THEN LET schema_results ==
                         validate_env_vars(opts.schema[1].model_fields, env_vars)
                 IN  /\ results' = results \o schema_results
                     /\ metrics' = [metrics EXCEPT !.schema_violations = Len(schema_results)]
                     /\ ran' = Append(ran, "schema")
                     /\ pc' = "secrets"
                     /\ UNCHANGED <<stderr, raised, exit_status>>
            ELSE /\ MainRaise("load_schema",
                        Error("ValueError", "No Pydantic BaseModel found in schema.py"))
                 /\ UNCHANGED <<results, metrics, ran>>
    /\ UNCHANGED <<opts, env_vars, policy_rules, sarif_output, stdout, written>>
    /\ UNCHANGED notMainVars

\* A secrets step that records the hits only, not the finding of a failure.
MainSecretsRecordingHitsOnly ==
    /\ pc = "secrets"
    /\ IF opts.detect_secrets
       THEN \E engine \in MainEngines :
               LET secrets_results == scan_env_file(env_vars, engine)
               IN  /\ results' = results \o secrets_results
                   /\ metrics' = [metrics EXCEPT !.secrets_found = Len(engine.hits)]
                   /\ ran' = Append(ran, "secrets")
       ELSE UNCHANGED <<results, metrics, ran>>
    /\ pc' = "policy"
    /\ UNCHANGED <<opts, env_vars, policy_rules, sarif_output, stdout, stderr, written,
                   raised, exit_status>>
    /\ UNCHANGED notMainVars

\* if detect_secrets: SecretsScanner().scan_env_file(env_file, env_vars)
MainSecrets ==
    /\ pc = "secrets"
    /\ IF opts.detect_secrets
       THEN \E engine \in MainEngines :
               LET secrets_results == scan_env_file(env_vars, engine)
               IN  /\ results' = results \o secrets_results
                   /\ metrics' = [metrics EXCEPT !.secrets_found = Len(secrets_results)]
                   /\ ran' = Append(ran, "secrets")
       ELSE UNCHANGED <<results, metrics, ran>>
    /\ pc' = "policy"
    /\ UNCHANGED <<opts, env_vars, policy_rules, sarif_output, stdout, stderr, written,
                   raised, exit_status>>
    /\ UNCHANGED notMainVars

\* if policy_rules: validate_policy(env_vars, policy_rules); a document
\* without a section is an empty dict, which is not true.
MainPolicy ==
    /\ pc = "policy"
    /\ IF policy_rules # <<>> /\ policy_rules[1].kids # <<>>
       THEN LET policy_results == validate_policy(env_vars, policy_rules[1])
            IN  /\ results' = results \o policy_results
                /\ metrics' = [metrics EXCEPT !.policy_violations = Len(policy_results)]
                /\ ran' = Append(ran, "policy")
       ELSE UNCHANGED <<results, metrics, ran>>
    /\ pc' = "sanitize"
    /\ UNCHANGED <<opts, env_vars, policy_rules, sarif_output, stdout, stderr, written,
                   raised, exit_status>>
    /\ UNCHANGED notMainVars

\* if sanitizer: results = [sanitizer.sanitize_result(r) for r in results]
MainSanitize ==
    /\ pc = "sanitize"
    /\ results' = IF opts.sanitize
                  THEN [i \in 1..Len(results) |-> sanitize_result(results[i])]
                  ELSE results
    /\ pc' = "report"
    /\ UNCHANGED <<opts, env_vars, policy_rules, metrics, sarif_output, stdout, stderr,
                   written, raised, ran, exit_status>>
    /\ UNCHANGED notMainVars

\* sarif_output = reporter.generate_report(...)
MainReport ==
    /\ pc = "report"
    /\ sarif_output' = <<generate_report(results, SourceFile,
                                         IF opts.metrics THEN <<metrics>> ELSE <<>>)>>
    /\ pc' = "output"
    /\ UNCHANGED <<results, opts, env_vars, policy_rules, metrics, stdout, stderr, written,
                   raised, ran, exit_status>>
    /\ UNCHANGED notMainVars

\* The report goes to the output file, which may fail to be written, or to
\* standard output. The document stands for its JSON text.
MainOutput ==
    /\ pc = "output"
    /\ IF opts.output # <<>>
       THEN \/ /\ written' = sarif_output
               /\ stderr' = Append(stderr, "Report written to " \o opts.output[1])
               /\ pc' = "exit"
               /\ UNCHANGED <<raised, exit_status>>
            \/ /\ MainRaise("output", Error("OSError", "No space left on device"))
               /\ UNCHANGED written
       ELSE /\ stdout' = Append(stdout, sarif_output[1])
            /\ pc' = "exit"
            /\ UNCHANGED <<stderr, written, raised, exit_status>>
    /\ IF opts.output # <<>> THEN UNCHANGED stdout ELSE TRUE
    /\ UNCHANGED <<results, opts, env_vars, policy_rules, metrics, sarif_output, ran>>
    /\ UNCHANGED notMainVars

\* if results: sys.exit(1), which raises SystemExit inside the try block;
\* else main returns and the run ends with status 0.
MainExit ==
    /\ pc = "exit"
    /\ IF results # <<>>
       THEN MainRaise("exit", [class |-> "SystemExit", message |-> "1", code |-> 1])
       ELSE /\ exit_status' = <<0>>
            /\ pc' = "exited"
            /\ UNCHANGED <<stderr, raised>>
    /\ UNCHANGED <<results, opts, env_vars, policy_rules, metrics, sarif_output, stdout,
                   written, ran>>
    /\ UNCHANGED notMainVars

MainNext ==
    \/ MainStart
    \/ MainRead
    \/ MainParse
    \/ MainLoadPolicy
    \/ MainSchema
    \/ MainSecrets
    \/ MainPolicy
    \/ MainSanitize
    \/ MainReport
    \/ MainOutput
    \/ MainExit

SpecMain == MainInit /\ [][MainNext]_vars

(***************************************************************************)
(* The three detectors of main returning in any order: each extends        *)
(* results with its list when it returns, and the run goes on to sanitize  *)
(* and report when all three have.                                         *)
(***************************************************************************)

\* Runs in which every file loads and every detector is on; arg holds what
\* the engine does in the run.
MergeOptions ==
    {o \in MainOptions :
        /\ o.env_file.readable
        /\ o.schema # <<>> /\ o.schema[1].loadable
        /\ o.policy # <<>> /\ PolicyLoad(o.policy[1]).raised = <<>>
        /\ o.policy[1].doc.kids # <<>>
        /\ o.detect_secrets
        /\ o.output = <<>>
        /\ ~o.metrics}

MergeInit ==
    /\ opts \in MergeOptions
    /\ arg \in [engine : MainEngines]
    /\ env_vars = parse_env_file(opts.env_file.content)
    /\ policy_rules = PolicyLoad(opts.policy[1]).policy
    /\ pc = "detect"
    /\ results = <<>> /\ ran = <<>>
    /\ metrics = <<>> /\ sarif_output = <<>> /\ stdout = <<>> /\ stderr = <<>>
    /\ written = <<>> /\ raised = <<>> /\ exit_status = <<>>
    /\ shuffled = <<>> /\ findings = <<>> /\ out = <<>> /\ ret = <<>>

\* A schema validation that empties the table it was given.
SchemaReturnsClearingTheTable ==
    /\ pc = "detect"
    /\ \A i \in 1..Len(ran) : ran[i] # "schema"
    /\ results' = results \o validate_env_vars(opts.schema[1].model_fields, env_vars)
    /\ ran' = Append(ran, "schema")
    /\ env_vars' = <<>>
    /\ UNCHANGED <<pc, opts, policy_rules, metrics, sarif_output, stdout, stderr,
                   written, raised, exit_status>>
    /\ UNCHANGED notMainVars

\* results.extend(schema_results)
SchemaReturns ==
    /\ pc = "detect"
    /\ \A i \in 1..Len(ran) : ran[i] # "schema"
    /\ results' = results \o validate_env_vars(opts.schema[1].model_fields, env_vars)
    /\ ran' = Append(ran, "schema")
    /\ UNCHANGED <<pc, opts, env_vars, policy_rules, metrics, sarif_output, stdout, stderr,
                   written, raised, exit_status>>
    /\ UNCHANGED notMainVars

\* results.extend(secrets_results)
SecretsReturns ==
    /\ pc = "detect"
    /\ \A i \in 1..Len(ran) : ran[i] # "secrets"
    /\ results' = results \o scan_env_file(env_vars, arg.engine)
    /\ ran' = Append(ran, "secrets")
    /\ UNCHANGED <<pc, opts, env_vars, policy_rules, metrics, sarif_output, stdout, stderr,
                   written, raised, exit_status>>
    /\ UNCHANGED notMainVars

\* results.extend(policy_results)
PolicyReturns ==
    /\ pc = "detect"
    /\ \A i \in 1..Len(ran) : ran[i] # "policy"
    /\ results' = results \o validate_policy(env_vars, policy_rules[1])
    /\ ran' = Append(ran, "policy")
    /\ UNCHANGED <<pc, opts, env_vars, policy_rules, metrics, sarif_output, stdout, stderr,
                   written, raised, exit_status>>
    /\ UNCHANGED notMainVars

\* The sanitize and report statements of main.
SanitizedResults(rs, sanitize) ==
    IF sanitize THEN [i \in 1..Len(rs) |-> sanitize_result(rs[i])] ELSE rs

MergeReport ==
    /\ pc = "detect"
    /\ Len(ran) = 3
    /\ results' = SanitizedResults(results, opts.sanitize)
    /\ sarif_output' = <<generate_report(results', SourceFile, <<>>)>>
    /\ pc' = "reported"
    /\ UNCHANGED <<opts, env_vars, policy_rules, metrics, stdout, stderr, written, raised,
                   ran, exit_status>>
    /\ UNCHANGED notMainVars

MergeNext ==
    \/ SchemaReturns
    \/ SecretsReturns
    \/ PolicyReturns
    \/ MergeReport

SpecMerge == MergeInit /\ [][MergeNext]_vars

(***************************************************************************)
(* audit (src/env_integrity_check/cli.py) and what it calls: validate_env, *)
(* secrets_scan, emit_sarif, emit_metrics. No statement of audit is inside *)
(* a try block: an exception leaves the command, which ends the run with   *)
(* status 1.                                                               *)
(***************************************************************************)

\* env[key] = value
SetEnv(env, key, value) ==
    IF \E i \in 1..Len(env) : env[i].key = key
    THEN [i \in 1..Len(env) |-> IF env[i].key = key THEN [key |-> key, value |-> value]
                                 ELSE env[i]]
    ELSE Append(env, [key |-> key, value |-> value])

\* parse_env: a line that is not blank and does not start with "#" is
\* partitioned at its first "=", with or without one.
parse_env(content) ==
    LET lines == SplitLines(content)
        parsed[n \in 0..Len(lines)] ==
            IF n = 0 THEN <<>>
            ELSE IF Strip(lines[n]) # "" /\ Ch(lines[n], 1) # "#"
                 THEN LET parts == Partition(lines[n], "=")
                      IN  SetEnv(parsed[n - 1], Strip(parts.before), Strip(parts.after))
                 ELSE parsed[n - 1]
    IN  parsed[Len(lines)]

Item(key, message, type, line, warning) ==
    [key |-> key, message |-> message, type |-> type, line |-> line, warning |-> warning]

\* The findings of validate_env: the errors of the model class and the
\* warnings of the placeholder values.
validate_env(model_fields, env) ==
    LET errors == ValidationErrors(model_fields, env)
        warnings[n \in 0..Len(env)] ==
            IF n = 0 THEN <<>>
            ELSE IF Upper(Strip(env[n].value)) \in {"TODO", "CHANGEME", "XXX", ""}
                 THEN Append(warnings[n - 1],
                         Item(<<env[n].key>>, <<"Contains placeholder or empty value.">>,
                              NoKey, NoKey, NoKey))
                 ELSE warnings[n - 1]
    IN  <<[section |-> "errors",
           items |-> [n \in 1..Len(errors) |->
                        Item(<<errors[n].loc>>, <<errors[n].msg>>, <<errors[n].type>>,
                             NoKey, NoKey)]],
          [section |-> "warnings", items |-> warnings[Len(env)]]>>

\* load_policy without a policy.json.
DefaultPolicy ==
    <<[section |-> "errors", level |-> "error"],
      [section |-> "warnings", level |-> "warning"],
      [section |-> "secrets", level |-> "error"]>>

\* _secrets_scan_impl: the engine is run and what it printed is read, as
\* JSON when it supports --json and line by line when it does not; any
\* exception of the run or of the reading gives the one entry of line 43.
_secrets_scan_impl(engine) ==
    IF engine.run # "ok" THEN <<ScanFailedItem>>
    ELSE IF engine.supports_json
         THEN IF engine.json = <<>> THEN <<ScanFailedItem>>
              ELSE [n \in 1..Len(engine.json[1]) |->
                       Item(NoKey, <<"Potential secret detected">>,
                            <<engine.json[1][n].type>>, <<engine.json[1][n].line_number>>,
                            NoKey)]
         ELSE LET lines == SplitLines(engine.stdout)
                  legacy[n \in 0..Len(lines)] ==
                      IF n = 0 THEN <<>>
                      ELSE IF Contains(Lower(lines[n]), "secret")
                           THEN Append(legacy[n - 1],
                                   Item(NoKey, <<"Legacy secret detection">>, NoKey, <<n>>,
                                        NoKey))
                           ELSE legacy[n - 1]
              IN  legacy[Len(lines)]

\* findings[section] = items
SetSection(fs, section, items) ==
    IF \E i \in 1..Len(fs) : fs[i].section = section
    THEN [i \in 1..Len(fs) |-> IF fs[i].section = section
                                THEN [section |-> section, items |-> items] ELSE fs[i]]
    ELSE Append(fs, [section |-> section, items |-> items])

\* The lines emit_metrics writes after the line of the duration.
MetricsLines(fs, policy) ==
    [i \in 1..Len(fs) |->
        LET of == {n \in 1..Len(policy) : policy[n].section = fs[i].section}
        IN  [section |-> fs[i].section,
             level |-> IF of = {} THEN "note" ELSE policy[CHOOSE n \in of : TRUE].level,
             count |-> Len(fs[i].items)]]

\* any(k in fail_levels and len(v) > 0 for k, v in findings.items())
HasError(fs, fail_on) ==
    LET parts == SplitOn(fail_on, ",")
        fail_levels == {Strip(parts[i]) : i \in 1..Len(parts)}
    IN  \E i \in 1..Len(fs) : fs[i].section \in fail_levels /\ Len(fs[i].items) > 0

\* What no statement of audit touches.
notAuditVars == <<results, shuffled, out, arg, ret, env_vars, sarif_output, ran>>

\* An exception that leaves audit: the traceback goes to the error stream
\* and the run ends with status 1.
AuditRaise(stage, class) ==
    /\ raised' = Append(raised, [stage |-> stage, class |-> class])
    /\ stderr' = Append(stderr, "Traceback: " \o class)
    /\ exit_status' = <<1>>
    /\ pc' = "exited"

\* The options of audit and what they name: the example file, the model
\* class, and policy.json, which is absent, not JSON (json |-> <<>>) or a
\* policy.
AuditOptions ==
    [example : {[readable |-> FALSE, content |-> ""],
                [readable |-> TRUE, content |-> "PORT=8080\nSECRET_KEY=12"],
                [readable |-> TRUE, content |-> "SECRET_KEY=hunter2"],
                [readable |-> TRUE, content |-> "# example\nPORT= todo \nSECRET_KEY"]},
     schema : {[importable |-> FALSE, model_fields |-> <<>>],
               [importable |-> TRUE,
                model_fields |-> <<[name |-> "PORT", type |-> "int", required |-> FALSE],
                                   [name |-> "SECRET_KEY", type |-> "int",
                                    required |-> TRUE]>>]},
     report : {"sarif", "json"},
     out : {"audit.sarif.json"}, fail_on : {"error,warning", "errors, secrets"},
     secrets_scan : BOOLEAN,
     policy_json : Optional({[json |-> <<>>],
                             [json |-> <<<<[section |-> "errors", level |-> "warning"]>>>>]}),
     metrics_enabled : BOOLEAN]

\* What detect-secrets does in a run: whether its help names --json, how
\* its run ends, and what it prints, which is JSON (json |-> <<hits>>) or
\* not (json |-> <<>>).
AuditEngines ==
    {[supports_json |-> TRUE, run |-> "ok", stdout |-> "{}", json |-> <<<<>>>>],
     [supports_json |-> TRUE, run |-> "ok", stdout |-> "{...}",
      json |-> <<<<[type |-> "Secret Keyword", line_number |-> 1]>>>>],
     [supports_json |-> TRUE, run |-> "ok", stdout |-> "usage: detect-secrets", json |-> <<>>],
     [supports_json |-> TRUE, run |-> "timeout", stdout |-> "", json |-> <<>>],
     [supports_json |-> FALSE, run |-> "ok", stdout |-> "scanning\nSecret Keyword: line 1",
      json |-> <<>>],
     [supports_json |-> FALSE, run |-> "crash", stdout |-> "", json |-> <<>>]}

AuditInit ==
    /\ opts \in AuditOptions
    /\ pc = "validate"
    /\ findings = <<>> /\ policy_rules = <<>> /\ metrics = <<>>
    /\ stdout = <<>> /\ stderr = <<>> /\ written = <<>> /\ raised = <<>>
    /\ exit_status = <<>>
    /\ results = <<>> /\ shuffled = <<>> /\ out = <<>>
    /\ env_vars = <<>> /\ sarif_output = <<>> /\ ran = <<>>
    /\ CallIdle

\* findings, policy = validate_env(file_path, schema): the model class is
\* imported, the file is read and validated and the policy is loaded; each
\* of the three may raise.
AuditValidate ==
    /\ pc = "validate"
    /\ IF ~opts.schema.importable
       THEN /\ AuditRaise("validate", "ModuleNotFoundError")
            /\ UNCHANGED <<findings, policy_rules>>
       ELSE IF ~opts.example.readable
            THEN /\ AuditRaise("validate", "PermissionError")
                 /\ UNCHANGED <<findings, policy_rules>>
            ELSE IF opts.policy_json # <<>> /\ opts.policy_json[1].json = <<>>
                 THEN /\ AuditRaise("validate", "JSONDecodeError")
                      /\ UNCHANGED <<findings, policy_rules>>
                 ELSE /\ findings' = validate_env(opts.schema.model_fields,
                                                  parse_env(opts.example.content))
                      /\ policy_rules' = IF opts.policy_json = <<>> THEN <<DefaultPolicy>>
                                         ELSE opts.policy_json[1].json
                      /\ pc' = "secrets"
                      /\ UNCHANGED <<stderr, raised, exit_status>>
    /\ UNCHANGED <<opts, metrics, stdout, written>>
    /\ UNCHANGED notAuditVars

\* if secrets_scan: findings["secrets"] = the list secrets_scan returns
AuditSecrets ==
    /\ pc = "secrets"
    /\ IF opts.secrets_scan
       THEN \E engine \in AuditEngines :
               findings' = SetSection(findings, "secrets", _secrets_scan_impl(engine))
       ELSE UNCHANGED findings
    /\ pc' = "report"
    /\ UNCHANGED <<opts, policy_rules, metrics, stdout, stderr, written, raised,
                   exit_status>>
    /\ UNCHANGED notAuditVars

\* The report is built and written to the output file, which may fail to be
\* written; the SARIF document is built by emit_sarif, which may raise.
AuditReport ==
    /\ pc = "report"
    /\ LET sarif_doc == emit_sarif(findings, SourceFile)
           body == IF opts.report = "sarif" THEN sarif_doc.doc ELSE <<findings>>
       IN  IF opts.report = "sarif" /\ sarif_doc.raised # ""
           THEN /\ AuditRaise("report", sarif_doc.raised)
                /\ UNCHANGED <<written, stdout>>
           ELSE \/ /\ written' = <<[format |-> opts.report, body |-> body[1]]>>
                   /\ stdout' = Append(stdout,
                                   (IF opts.report = "sarif" THEN "SARIF" ELSE "JSON")
                                   \o " report written to " \o opts.out)
                   /\ pc' = "metrics"
                   /\ UNCHANGED <<stderr, raised, exit_status>>
                \/ /\ AuditRaise("report", "OSError")
                   /\ UNCHANGED <<written, stdout>>
    /\ UNCHANGED <<findings, opts, policy_rules, metrics>>
    /\ UNCHANGED notAuditVars

\* emit_metrics: with ENV_INTEGRITY_METRICS_ENABLED set, the lines of the
\* sections are written to the metrics file.
AuditMetrics ==
    /\ pc = "metrics"
    /\ metrics' = IF opts.metrics_enabled THEN <<MetricsLines(findings, policy_rules[1])>>
                  ELSE metrics
    /\ pc' = "exit"
    /\ UNCHANGED <<findings, opts, policy_rules, stdout, stderr, written, raised,
                   exit_status>>
    /\ UNCHANGED notAuditVars

\* if has_error: raise SystemExit(1); else audit returns.
AuditExit ==
    /\ pc = "exit"
    /\ IF HasError(findings, opts.fail_on)
       THEN /\ raised' = Append(raised, [stage |-> "exit", class |-> "SystemExit"])
            /\ exit_status' = <<1>>
       ELSE /\ exit_status' = <<0>>
            /\ UNCHANGED raised
    /\ pc' = "exited"
    /\ UNCHANGED <<findings, opts, policy_rules, metrics, stdout, stderr, written>>
    /\ UNCHANGED notAuditVars

AuditNext ==
    \/ AuditValidate
    \/ AuditSecrets
    \/ AuditReport
    \/ AuditMetrics
    \/ AuditExit

SpecAudit == AuditInit /\ [][AuditNext]_vars

(***************************************************************************)
(* parse_env_file, validate_policy, PolicyLoader.load and                  *)
(* SchemaIntrospector.validate_env_vars, each called once on its           *)
(* arguments: arg holds the function and the arguments, ret what the call  *)
(* returned.                                                               *)
(***************************************************************************)

MaxLines == 3

MaxPolicyItems == 3

\* The facts of the fact tables the calls are given.
CallFactTables ==
    {<<>>,
     <<[key |-> "APP_NAME", value |-> "myapp", line |-> 1]>>,
     <<[key |-> "TEST_VAR", value |-> "1", line |-> 2],
       [key |-> "DEBUG", value |-> "true", line |-> 3]>>,
     <<[key |-> "DEBUG", value |-> "1", line |-> 1],
       [key |-> "MY_PROD_KEY", value |-> "k", line |-> 4],
       [key |-> "PORT", value |-> "80a", line |-> 5],
       [key |-> "TEST_VAR", value |-> "x", line |-> 6]>>}

\* The files of up to MaxLines lines, each with the lines it was written
\* from, joined by "\n".
ParseArguments ==
    LET lines == {"  ", "# A=1", "A=1", " A = 2 ", "B=x=y", "A", "B='q'", "B=\"",
                  "=v", "C= ' q' \r"}
        text(ls) ==
            LET join[n \in 0..Len(ls)] ==
                    IF n = 0 THEN ""
                    ELSE IF n = 1 THEN ls[1] ELSE join[n - 1] \o "\n" \o ls[n]
            IN  join[Len(ls)]
    IN  {[fn |-> "parse_env_file", lines |-> ls, content |-> text(ls)] :
            ls \in SeqsUpTo(lines, MaxLines)}

\* Fact tables and policies of up to MaxPolicyItems names and patterns; a
\* policy has the sections that are not empty.
PolicyArguments ==
    LET rule(regex, action, message) ==
            DictV(<<Entry("regex", StrV(regex))>>
                  \o [i \in 1..Len(action) |-> Entry("action", StrV(action[i]))]
                  \o [i \in 1..Len(message) |-> Entry("message", StrV(message[i]))])
        rules == {rule("^TEST_.*", <<"warn">>, <<"Test variables detected">>),
                  rule("TEST", <<"warn">>, <<>>),
                  rule(".*_PROD", <<"warn">>, <<>>),
                  rule(".*_PROD", <<"block">>, <<"Production variable">>),
                  rule("DEBUG$", <<>>, <<>>)}
        section(name, items) ==
            IF items = <<>> THEN <<>> ELSE <<Entry(name, ListV(items))>>
        sizes == {t \in (0..MaxPolicyItems) \X (0..MaxPolicyItems) \X (0..MaxPolicyItems) :
                     t[1] + t[2] + t[3] <= MaxPolicyItems}
        policies ==
            UNION {{DictV(section("required", r) \o section("forbidden", f)
                          \o section("patterns", p)) :
                        r \in [1..t[1] -> {StrV("APP_NAME"), StrV("DEBUG")}],
                        f \in [1..t[2] -> {StrV("DEBUG"), StrV("TEST_VAR")}],
                        p \in [1..t[3] -> rules]} : t \in sizes}
    IN  [fn : {"validate_policy"}, facts : CallFactTables, policy : policies]

\* Policy files: one for each way load fails, and files it loads.
LoadArguments ==
    LET doc(kids) == [yaml |-> "loaded", doc |-> DictV(kids)]
        patterns(items) == doc(<<Entry("patterns", ListV(items))>>)
        regex(value) == patterns(<<DictV(<<Entry("regex", value),
                                           Entry("action", StrV("warn"))>>)>>)
        files ==
            {[yaml |-> "unreadable", doc |-> NoneV],
             [yaml |-> "error", doc |-> NoneV],
             [yaml |-> "loaded", doc |-> NoneV],
             [yaml |-> "loaded", doc |-> ListV(<<StrV("APP_NAME")>>)],
             [yaml |-> "loaded", doc |-> StrV("required")],
             doc(<<>>),
             doc(<<Entry("metadata", DictV(<<Entry("name", StrV("Example"))>>))>>),
             doc(<<Entry("required", ListV(<<StrV("APP_NAME")>>)),
                   Entry("rules", ListV(<<>>))>>),
             doc(<<Entry("required", StrV("APP_NAME"))>>),
             doc(<<Entry("required", NoneV)>>),
             doc(<<Entry("required", ListV(<<StrV("APP_NAME"), IntV(1)>>))>>),
             doc(<<Entry("forbidden", DictV(<<Entry("DEBUG", NoneV)>>))>>),
             doc(<<Entry("required", ListV(<<StrV("APP_NAME")>>)),
                   Entry("forbidden", ListV(<<NoneV>>))>>),
             doc(<<Entry("patterns", DictV(<<Entry("regex", StrV(".*"))>>))>>),
             patterns(<<StrV("^TEST_.*")>>),
             patterns(<<DictV(<<Entry("action", StrV("warn"))>>)>>),
             regex(IntV(1)),
             regex(StrV("*_PROD")),
             regex(StrV("TEST_(")),
             regex(StrV("[A-Z")),
             regex(StrV("A**")),
             regex(StrV("^TEST_.*")),
             patterns(<<DictV(<<Entry("regex", StrV(".*_PROD_.*"))>>),
                        DictV(<<Entry("regex", StrV("^*"))>>)>>),
             doc(<<Entry("metadata", StrV("v1")),
                   Entry("required", ListV(<<StrV("APP_NAME"), StrV("APP_NAME")>>)),
                   Entry("forbidden", ListV(<<>>)),
                   Entry("patterns",
                         ListV(<<DictV(<<Entry("regex", StrV("DEBUG$")),
                                         Entry("message", IntV(1))>>)>>))>>)}
    IN  [fn : {"load"}, file : files]

\* Model classes, by their fields, and fact tables.
SchemaArguments ==
    LET field(name, type, required) == [name |-> name, type |-> type, required |-> required]
        classes ==
            {<<>>,
             <<field("PORT", "int", FALSE), field("SECRET_KEY", "int", TRUE)>>,
             <<field("APP_NAME", "str", TRUE), field("PORT", "int", TRUE),
               field("DEBUG", "int", FALSE)>>,
             <<field("DEBUG", "int", TRUE), field("TEST_VAR", "int", TRUE),
               field("DATABASE_URL", "str", TRUE), field("APP_ENV", "str", TRUE)>>}
    IN  [fn : {"validate_env_vars"}, model_fields : classes, facts : CallFactTables]

CallsInit ==
    /\ \/ arg \in ParseArguments
       \/ arg \in PolicyArguments
       \/ arg \in LoadArguments
       \/ arg \in SchemaArguments
    /\ ret = <<>>
    /\ ReportIdle
    /\ RunIdle

CallParseEnvFile ==
    /\ arg.fn = "parse_env_file"
    /\ ret = <<>>
    /\ ret' = <<parse_env_file(arg.content)>>
    /\ UNCHANGED arg
    /\ UNCHANGED notCallVars

CallValidatePolicy ==
    /\ arg.fn = "validate_policy"
    /\ ret = <<>>
    /\ ret' = <<validate_policy(arg.facts, arg.policy)>>
    /\ UNCHANGED arg
    /\ UNCHANGED notCallVars

CallPolicyLoad ==
    /\ arg.fn = "load"
    /\ ret = <<>>
    /\ ret' = <<PolicyLoad(arg.file)>>
    /\ UNCHANGED arg
    /\ UNCHANGED notCallVars

CallValidateEnvVars ==
    /\ arg.fn = "validate_env_vars"
    /\ ret = <<>>
    /\ ret' = <<validate_env_vars(arg.model_fields, arg.facts)>>
    /\ UNCHANGED arg
    /\ UNCHANGED notCallVars

\* secrets_scanner.scan_env_file(env_file, env_vars) on the table
\* parse_env_file returned for the file: the engine reports nothing, one
\* line of the file, or every line of it, the last line first.
CallScanEnvFile ==
    /\ arg.fn = "parse_env_file"
    /\ Len(ret) = 1
    /\ LET hit(n) == [type |-> "Secret Keyword", line_number |-> n]
           count == Len(arg.lines)
       IN  \E hits \in SeqsUpTo({hit(n) : n \in 1..count}, 1)
                        \cup {[i \in 1..count |-> hit(count + 1 - i)]} :
              ret' = Append(ret, [hits |-> hits,
                                  results |-> scan_env_file(ret[1], [hits |-> hits,
                                                                     fails |-> <<>>])])
    /\ UNCHANGED arg
    /\ UNCHANGED notCallVars

CallsNext ==
    \/ CallScanEnvFile
    \/ CallParseEnvFile
    \/ CallValidatePolicy
    \/ CallPolicyLoad
    \/ CallValidateEnvVars

SpecCalls == CallsInit /\ [][CallsNext]_vars

(***************************************************************************)
(* The digest of a fingerprint: hashlib.sha256 as FIPS 180-4 defines it,   *)
(* on 32-bit words kept as the pair of their high and low 16 bits, and     *)
(* _generate_fingerprint called on its own.                                *)
(***************************************************************************)

\* The tables of SHA-256: bitwise "and" and "xor" of two numbers below 16,
\* the initial hash value h and the round constants k.
Sha256Tables ==
    LET bit(a, n) == (a \div (2 ^ n)) % 2
    IN  [and |-> [a \in 0..15 |-> [b \in 0..15 |->
                    bit(a, 0) * bit(b, 0) + 2 * bit(a, 1) * bit(b, 1)
                    + 4 * bit(a, 2) * bit(b, 2) + 8 * bit(a, 3) * bit(b, 3)]],
         xor |-> [a \in 0..15 |-> [b \in 0..15 |->
                    ((bit(a, 0) + bit(b, 0)) % 2) + 2 * ((bit(a, 1) + bit(b, 1)) % 2)
                    + 4 * ((bit(a, 2) + bit(b, 2)) % 2)
                    + 8 * ((bit(a, 3) + bit(b, 3)) % 2)]],
         h |->
          <<<<27145, 58983>>, <<47975, 44677>>, <<15470, 62322>>, <<42319, 62778>>,
            <<20750, 21119>>, <<39685, 26764>>, <<8067, 55723>>, <<23520, 52505>>>>,
         k |->
          <<<<17034, 12184>>, <<28983, 17553>>, <<46528, 64463>>, <<59829, 56229>>,
            <<14678, 49755>>, <<23025, 4593>>, <<37439, 33444>>, <<43804, 24277>>,
            <<55303, 43672>>, <<4739, 23297>>, <<9265, 34238>>, <<21772, 32195>>,
            <<29374, 23924>>, <<32990, 45566>>, <<39900, 1703>>, <<49563, 61812>>,
            <<58523, 27073>>, <<61374, 18310>>, <<4033, 40390>>, <<9228, 41420>>,
            <<11753, 11375>>, <<19060, 33962>>, <<23728, 43484>>, <<30457, 35034>>,
            <<38974, 20818>>, <<43057, 50797>>, <<45059, 10184>>, <<48985, 32711>>,
            <<50912, 3059>>, <<54695, 37191>>, <<1738, 25425>>, <<5161, 10599>>,
            <<10167, 2693>>, <<11803, 8504>>, <<19756, 28156>>, <<21304, 3347>>,
            <<25866, 29524>>, <<30314, 2747>>, <<33218, 51502>>, <<37490, 11397>>,
            <<41663, 59553>>, <<43034, 26187>>, <<49739, 35696>>, <<51052, 20899>>,
            <<53650, 59417>>, <<54937, 1572>>, <<62478, 13701>>, <<4202, 41072>>,
            <<6564, 49430>>, <<7735, 27656>>, <<10056, 30540>>, <<13488, 48309>>,
            <<14620, 3251>>, <<20184, 43594>>, <<23452, 51791>>, <<26670, 28659>>,
            <<29839, 33518>>, <<30885, 25455>>, <<33992, 30740>>, <<36039, 520>>,
            <<37054, 65530>>, <<42064, 27883>>, <<48889, 41975>>, <<50801, 30962>>>>]

\* hashlib.sha256(text.encode()).hexdigest()[:16] of a text of ASCII
\* characters. The 48 words a block's schedule is extended by and the 64
\* rounds are applied in halves, each half evaluated before the next.
sha256_hexdigest16(text) ==
    LET op16(f, a, b) ==
            f[a % 16][b % 16] + 16 * f[(a \div 16) % 16][(b \div 16) % 16]
            + 256 * f[(a \div 256) % 16][(b \div 256) % 16]
            + 4096 * f[a \div 4096][b \div 4096]
        xor(x, y) == <<op16(Sha256Tables.xor, x[1], y[1]), op16(Sha256Tables.xor, x[2], y[2])>>
        and(x, y) == <<op16(Sha256Tables.and, x[1], y[1]), op16(Sha256Tables.and, x[2], y[2])>>
        not(x) == <<65535 - x[1], 65535 - x[2]>>
        sum(ws) ==
            LET lo[i \in 0..Len(ws)] == IF i = 0 THEN 0 ELSE lo[i - 1] + ws[i][2]
                hi[i \in 0..Len(ws)] ==
                    IF i = 0 THEN lo[Len(ws)] \div 65536 ELSE hi[i - 1] + ws[i][1]
            IN  <<hi[Len(ws)] % 65536, lo[Len(ws)] % 65536>>
        rotr(x, n) ==
            LET y == IF n >= 16 THEN <<x[2], x[1]>> ELSE x
                p == 2 ^ (n % 16)
                q == 2 ^ (16 - (n % 16))
            IN  <<(y[1] \div p) + (y[2] % p) * q, (y[2] \div p) + (y[1] % p) * q>>
        shr(x, n) ==
            LET p == 2 ^ n
                q == 2 ^ (16 - n)
            IN  <<x[1] \div p, (x[2] \div p) + (x[1] % p) * q>>
        ssig0(x) == xor(xor(rotr(x, 7), rotr(x, 18)), shr(x, 3))
        ssig1(x) == xor(xor(rotr(x, 17), rotr(x, 19)), shr(x, 10))
        bsig0(x) == xor(xor(rotr(x, 2), rotr(x, 13)), rotr(x, 22))
        bsig1(x) == xor(xor(rotr(x, 6), rotr(x, 11)), rotr(x, 25))
        ch(x, y, z) == xor(and(x, y), and(not(x), z))
        maj(x, y, z) == xor(xor(and(x, y), and(x, z)), and(y, z))
        length == Len(text)
        zeros == (119 - (length % 64)) % 64
        bits == 8 * length
        padded ==
            [i \in 1..(length + 1 + zeros + 8) |->
                IF i <= length THEN Ord(Ch(text, i))
                ELSE IF i = length + 1 THEN 128
                ELSE IF i <= length + 1 + zeros + 4 THEN 0
                ELSE (bits \div (256 ^ (length + 1 + zeros + 8 - i))) % 256]
        blocks == Len(padded) \div 64
        word(b, j) ==
            LET at == 64 * (b - 1) + 4 * (j - 1)
            IN  <<256 * padded[at + 1] + padded[at + 2], 256 * padded[at + 3] + padded[at + 4]>>
        next(w) ==
            LET n == Len(w) + 1
            IN  Append(w, sum(<<ssig1(w[n - 2]), w[n - 7], ssig0(w[n - 15]), w[n - 16]>>))
        RECURSIVE extend(_, _)
        extend(w, count) ==
            IF count = 1 THEN next(w)
            ELSE LET v == extend(w, count \div 2)
                 IN  IF Len(v) > 16 THEN extend(v, count \div 2) ELSE v
        schedule(b) ==
            LET v == extend(<<word(b, 1), word(b, 2), word(b, 3), word(b, 4), word(b, 5),
                              word(b, 6), word(b, 7), word(b, 8), word(b, 9), word(b, 10),
                              word(b, 11), word(b, 12), word(b, 13), word(b, 14),
                              word(b, 15), word(b, 16)>>, 32)
            IN  IF Len(v) = 48 THEN extend(v, 16) ELSE v
        round(s, k, w) ==
            LET t1 == sum(<<s[8], bsig1(s[5]), ch(s[5], s[6], s[7]), Sha256Tables.k[k], w[k]>>)
                t2 == sum(<<bsig0(s[1]), maj(s[1], s[2], s[3])>>)
            IN  <<sum(<<t1, t2>>), s[1], s[2], s[3], sum(<<s[4], t1>>), s[5], s[6], s[7]>>
        RECURSIVE rounds(_, _, _, _)
        rounds(s, k, count, w) ==
            IF count = 1 THEN round(s, k + 1, w)
            ELSE LET v == rounds(s, k, count \div 2, w)
                 IN  IF Len(v) = 8 THEN rounds(v, k + (count \div 2), count \div 2, w) ELSE v
        compress(h, w) ==
            LET s == rounds(h, 0, 64, w)
            IN  IF Len(w) = 64 /\ Len(s) = 8
                THEN <<sum(<<h[1], s[1]>>), sum(<<h[2], s[2]>>), sum(<<h[3], s[3]>>),
                       sum(<<h[4], s[4]>>), sum(<<h[5], s[5]>>), sum(<<h[6], s[6]>>),
                       sum(<<h[7], s[7]>>), sum(<<h[8], s[8]>>)>>
                ELSE h
        hash[b \in 0..blocks] ==
            IF b = 0 THEN Sha256Tables.h ELSE compress(hash[b - 1], schedule(b))
        hex(v) ==
            LET digit(d) == Ch("0123456789abcdef", d + 1)
            IN  digit(v \div 4096) \o digit((v \div 256) % 16)
                \o digit((v \div 16) % 16) \o digit(v % 16)
        digest == hash[blocks]
    IN  hex(digest[1][1]) \o hex(digest[1][2]) \o hex(digest[2][1]) \o hex(digest[2][2])

\* The greatest line number of a call.
MaxLineNumber == 11

\* _generate_fingerprint is called twice with one line and once with another
\* line, the rule id and the file the same.
FingerprintInit ==
    /\ arg \in [fn : {"_generate_fingerprint"},
                rule_id : {"secret-detected", "missing-required-field"},
                file_path : {SourceFile, "config/prod.env"},
                line : 1..MaxLineNumber,
                other_line : 1..MaxLineNumber]
    /\ ret = <<>>
    /\ ReportIdle
    /\ RunIdle

CallGenerateFingerprint ==
    /\ arg.fn = "_generate_fingerprint"
    /\ Len(ret) < 2
    /\ ret' = Append(ret,
                [line |-> arg.line,
                 fingerprint |-> sha256_hexdigest16(
                     _generate_fingerprint(arg.rule_id, arg.file_path, arg.line).sha256_16)])
    /\ UNCHANGED arg
    /\ UNCHANGED notCallVars

CallGenerateFingerprintOtherLine ==
    /\ arg.fn = "_generate_fingerprint"
    /\ Len(ret) = 2
    /\ ret' = Append(ret,
                [line |-> arg.other_line,
                 fingerprint |-> sha256_hexdigest16(
                     _generate_fingerprint(arg.rule_id, arg.file_path,
                                           arg.other_line).sha256_16)])
    /\ UNCHANGED arg
    /\ UNCHANGED notCallVars

FingerprintNext == CallGenerateFingerprint \/ CallGenerateFingerprintOtherLine

SpecFingerprint == FingerprintInit /\ [][FingerprintNext]_vars

(***************************************************************************)
(* Sanitizer.sanitize_result called on a finding, and called again on what *)
(* it returned.                                                            *)
(***************************************************************************)

\* Findings whose message is written as prefix, NAME, "=", a value as it
\* stands in the text and suffix, with details of every shape: absent, flat,
\* nested in dicts and in lists, and with values of every type under
\* sensitive and other keys.
ResultInit ==
    /\ arg \in {[fn |-> "sanitize_result",
                 prefix |-> prefix, name |-> name, value_text |-> v, suffix |-> suffix,
                 result |-> [rule_id |-> "schema-validation", level |-> "error",
                             message |-> prefix \o name \o "=" \o v \o suffix,
                             line |-> 3, details |-> details]] :
                  prefix \in {"", "Invalid "},
                  name \in {"PASSWORD", "token_file", "APP_NAME"},
                  v \in {"hunter2", "\"hunter2\"", "\"my secret\"", "abc\"def"},
                  suffix \in {"", " given"},
                  details \in
                    {<<>>,
                     <<DictV(<<Entry("input", StrV("hunter2"))>>)>>,
                     <<DictV(<<Entry("password", StrV("mypassword")),
                               Entry("username", StrV("admin")),
                               Entry("port", IntV(42))>>)>>,
                     <<DictV(<<Entry("config",
                                 DictV(<<Entry("secret_key", StrV("secret123")),
                                         Entry("app_name", StrV("myapp")),
                                         Entry("items",
                                           ListV(<<DictV(<<Entry("token", StrV("t0"))>>),
                                                   StrV("key=v"),
                                                   ListV(<<StrV("api_key=1")>>),
                                                   IntV(7)>>))>>))>>)>>,
                     <<DictV(<<Entry("password", IntV(42))>>)>>,
                     <<DictV(<<Entry("auth", NoneV),
                               Entry("private", ListV(<<StrV("x")>>)),
                               Entry("n", DictV(<<Entry("credential",
                                                    DictV(<<Entry("u", IntV(1))>>))>>))>>)>>}}
    /\ ret = <<>>
    /\ ReportIdle
    /\ RunIdle

\* sanitizer.sanitize_result(result). What is written to is result.copy()
\* and the dicts and lists _sanitize_dict and _sanitize_list build; result
\* and the values of its details are only read.
CallSanitizeResult ==
    /\ arg.fn = "sanitize_result"
    /\ ret = <<>>
    /\ ret' = <<sanitize_result(arg.result)>>
    /\ UNCHANGED arg
    /\ UNCHANGED notCallVars

\* sanitizer.sanitize_result of the finding sanitize_result returned.
CallSanitizeResultAgain ==
    /\ arg.fn = "sanitize_result"
    /\ Len(ret) = 1
    /\ ret' = Append(ret, sanitize_result(ret[1]))
    /\ UNCHANGED arg
    /\ UNCHANGED notCallVars

ResultNext == CallSanitizeResult \/ CallSanitizeResultAgain

SpecResult == ResultInit /\ [][ResultNext]_vars

(***************************************************************************)
(* The calls on one Metrics object.  metrics is self.metrics, and ret is   *)
(* the log of the calls made so far: the method, and the value passed to   *)
(* a record_* method or returned by get_total_violations.                  *)
(***************************************************************************)
MaxCalls == 3

MaxCount == 2

notMetricsVars ==
    <<results, shuffled, findings, out, arg, pc, opts, env_vars, policy_rules, sarif_output,
      stdout, stderr, written, raised, ran, exit_status>>

MetricsInit ==
    /\ ReportIdle /\ CallIdle
    /\ metrics = NewMetrics("2026-01-01T00:00:00+00:00")
    /\ pc = "idle" /\ opts = <<>> /\ env_vars = <<>> /\ policy_rules = <<>>
    /\ sarif_output = <<>> /\ stdout = <<>> /\ stderr = <<>>
    /\ written = <<>> /\ raised = <<>> /\ ran = <<>> /\ exit_status = <<>>

\* Metrics.get_total_violations.
get_total_violationsWithoutSecrets(m) == m.schema_violations + m.policy_violations

get_total_violations(m) == m.schema_violations + m.secrets_found + m.policy_violations

record_file_size ==
    /\ Len(ret) < MaxCalls
    /\ \E size \in 0..MaxCount :
          /\ metrics' = [metrics EXCEPT !.file_size_bytes = size]
          /\ ret' = Append(ret, [method |-> "record_file_size", value |-> size])
    /\ UNCHANGED notMetricsVars

record_env_var_count ==
    /\ Len(ret) < MaxCalls
    /\ \E count \in 0..MaxCount :
          /\ metrics' = [metrics EXCEPT !.env_var_count = count]
          /\ ret' = Append(ret, [method |-> "record_env_var_count", value |-> count])
    /\ UNCHANGED notMetricsVars

record_schema_violations ==
    /\ Len(ret) < MaxCalls
    /\ \E count \in 0..MaxCount :
          /\ metrics' = [metrics EXCEPT !.schema_violations = count]
          /\ ret' = Append(ret, [method |-> "record_schema_violations", value |-> count])
    /\ UNCHANGED notMetricsVars

record_secrets_found ==
    /\ Len(ret) < MaxCalls
    /\ \E count \in 0..MaxCount :
          /\ metrics' = [metrics EXCEPT !.secrets_found = count]
          /\ ret' = Append(ret, [method |-> "record_secrets_found", value |-> count])
    /\ UNCHANGED notMetricsVars

record_policy_violations ==
    /\ Len(ret) < MaxCalls
    /\ \E count \in 0..MaxCount :
          /\ metrics' = [metrics EXCEPT !.policy_violations = count]
          /\ ret' = Append(ret, [method |-> "record_policy_violations", value |-> count])
    /\ UNCHANGED notMetricsVars

\* record_policy_loaded takes no argument: it sets the flag.
record_policy_loaded ==
    /\ Len(ret) < MaxCalls
    /\ metrics' = [metrics EXCEPT !.policy_loaded = TRUE]
    /\ ret' = Append(ret, [method |-> "record_policy_loaded", value |-> TRUE])
    /\ UNCHANGED notMetricsVars

CallGetTotalViolations ==
    /\ Len(ret) < MaxCalls
    /\ ret' = Append(ret, [method |-> "get_total_violations",
                           value |-> get_total_violations(metrics)])
    /\ UNCHANGED <<metrics, notMetricsVars>>

MetricsNext ==
    \/ record_file_size
    \/ record_env_var_count
    \/ record_schema_violations
    \/ record_secrets_found
    \/ record_policy_violations
    \/ record_policy_loaded
    \/ CallGetTotalViolations

SpecMetrics == MetricsInit /\ [][MetricsNext]_vars

(***************************************************************************)
(* Properties of the reporters (SpecReport)                                *)
(***************************************************************************)

\* The (rule_id, line) order of two findings, stated on its own.
SameKey(f, g) == f.rule_id = g.rule_id /\ f.line = g.line

KeyBefore(f, g) ==
    \/ StrLess(f.rule_id, g.rule_id)
    \/ f.rule_id = g.rule_id /\ f.line < g.line

\* C1: generate_report returns the results in the same order for a list of
\* findings and for any permutation of it, also when findings share rule_id
\* and line and differ in their message.
C1_ShuffledInputSameOrder ==
    (out.gen # <<>> /\ out.genS # <<>>) => out.gen[1].results = out.genS[1].results

\* C2: the results of generate_report are the input findings, converted, in
\* non-decreasing order of (ruleId, startLine), and findings with equal
\* (ruleId, startLine) keep the relative order they have in the input.
C2_StableSortedByRuleAndLine ==
    out.gen # <<>> =>
        LET rs == out.gen[1].results
            n == Len(results)
            key(r) == [rule_id |-> r.ruleId, line |-> r.startLine]
        IN  /\ Len(rs) = n
            /\ \A i, j \in 1..n : i < j => ~KeyBefore(key(rs[j]), key(rs[i]))
            /\ \E p \in [1..n -> 1..n] :
                  /\ \A i, j \in 1..n : i # j => p[i] # p[j]
                  /\ \A i \in 1..n : rs[i] = _convert_to_sarif_result(results[p[i]], SourceFile)
                  /\ \A i, j \in 1..n :
                        (i < j /\ SameKey(results[p[i]], results[p[j]])) => p[i] < p[j]

\* C2 witness: a report of a list that holds two findings with the same key
\* and different messages, and two findings out of order.
C2_Witness ==
    /\ out.gen # <<>>
    /\ \E i, j \in 1..Len(results) :
          i < j /\ SameKey(results[i], results[j]) /\ results[i].message # results[j].message
    /\ \E i, j \in 1..Len(results) : i < j /\ KeyBefore(results[j], results[i])

C19_CatalogOfRuleIdsAscending ==
    \A d \in 1..Len(out.gen) :
        LET rules == out.gen[d].rules
        IN  /\ {rules[i].id : i \in 1..Len(rules)}
                  = {results[i].rule_id : i \in 1..Len(results)}
            /\ \A i, j \in 1..Len(rules) : i < j => StrLess(rules[i].id, rules[j].id)

\* C19 witness: the findings have two rule ids, the greater one first and
\* the smaller one twice, and the catalog of the report has two entries.
C19_Witness ==
    /\ out.gen # <<>>
    /\ Len(results) = 3
    /\ results[1].rule_id = "secrets-scan-error"
    /\ results[2].rule_id = "secret-detected"
    /\ results[3].rule_id = "secret-detected"
    /\ Len(out.gen[1].rules) = 2
    /\ out.gen[1].rules[1].id = "secret-detected"

\* The levels of a report.
SarifLevels == {"error", "warning", "note"}

\* C20: every result of a report has a level of the closed set: that of
\* generate_report the level _map_level gives for the level of the finding,
\* which is error for error, warning for warning, note for info and note in
\* any case of the letters, and warning for anything else; that of
\* emit_sarif a level of the closed set as well.
C20_LevelsOfTheClosedSet ==
    /\ \A l \in {"error", "ERROR", "Error"} : _map_level(l) = "error"
    /\ \A l \in {"warning", "WARNING", "Warning"} : _map_level(l) = "warning"
    /\ \A l \in {"info", "INFO", "note", "Note"} : _map_level(l) = "note"
    /\ \A l \in {"critical", "fatal", ""} : _map_level(l) = "warning"
    /\ \A d \in 1..Len(out.gen) :
          /\ \A r \in 1..Len(out.gen[d].results) :
                out.gen[d].results[r].level \in SarifLevels
          /\ \A i \in 1..Len(results) :
                \E r \in 1..Len(out.gen[d].results) :
                    /\ out.gen[d].results[r].ruleId = results[i].rule_id
                    /\ out.gen[d].results[r].startLine = results[i].line
                    /\ out.gen[d].results[r].message = results[i].message
                    /\ out.gen[d].results[r].level = results[i].level
    /\ \A d \in 1..Len(out.emit) :
          out.emit[d].doc # <<>> =>
              \A r \in 1..Len(out.emit[d].doc[1].results) :
                  out.emit[d].doc[1].results[r].level \in SarifLevels


(***************************************************************************)
(* Properties of _generate_fingerprint (SpecFingerprint)                   *)
(***************************************************************************)

\* C22: a fingerprint is a text of 16 hexadecimal digits, two calls of
\* _generate_fingerprint with the same rule id, file and line return the
\* same fingerprint, and two calls that differ in the line only return
\* different fingerprints.
C22_FingerprintOfTheLine ==
    \A i, j \in 1..Len(ret) :
        /\ Len(ret[i].fingerprint) = 16
        /\ \A n \in 1..16 : \E d \in 1..16 :
              Ch(ret[i].fingerprint, n) = Ch("0123456789abcdef", d)
        /\ ret[i].line = ret[j].line <=> ret[i].fingerprint = ret[j].fingerprint

\* C22 witness: the calls were made with the lines 1, 1 and 11 for a secret
\* of ".env", and the fingerprints are those hashlib gives.
C22_Witness ==
    /\ arg.rule_id = "secret-detected"
    /\ arg.file_path = SourceFile
    /\ Len(ret) = 3
    /\ ret[1] = [line |-> 1, fingerprint |-> "cf6fc94a36f2c3cc"]
    /\ ret[2] = ret[1]
    /\ ret[3] = [line |-> 11, fingerprint |-> "a203425f9421e3df"]

(***************************************************************************)
(* Properties of the sanitizers (SpecSanitize)                             *)
(***************************************************************************)

\* The sensitive vocabulary the specification gives.
Vocabulary ==
    {"password", "secret", "token", "key", "api_key", "auth", "credential",
     "private", "passphrase", "cert", "certificate"}

HasVocabularyWord(key) == \E w \in Vocabulary : Contains(Lower(key), w)

\* The sanitized value still shows the original one: it is the original
\* (unless that is None or the empty text, which show nothing), or a text
\* that contains the original non-empty text, or a fact whose value does.
ShowsOriginal(orig, san) ==
    \/ san = orig /\ orig \notin {NoneV, StrV("")}
    \/ orig.t = "str" /\ orig.s # "" /\ san.t = "str" /\ Contains(san.s, orig.s)
    \/ /\ orig.t = "dict"
       /\ san.t = "dict"
       /\ \E i \in 1..Len(orig.kids) : \E j \in 1..Len(san.kids) :
             /\ orig.kids[i].k = "value"
             /\ san.kids[j].k = "value"
             /\ san.kids[j].val.t = "str"
             /\ Contains(san.kids[j].val.s, orig.kids[i].val.s)

\* C6: for every key whose lowercase form contains a word of the sensitive
\* vocabulary and every value, what sanitize_env_vars, _sanitize_dict and
\* sanitize_for_sarif return for that key does not contain the original value.
C6_VocabularyKeysRedacted ==
    HasVocabularyWord(arg.key) =>
        /\ ret.env_vars # <<>> => ~ShowsOriginal(arg.value, ret.env_vars[1])
        /\ ret.dict # <<>> => ~ShowsOriginal(arg.value, ret.dict[1])
        /\ ret.sarif # <<>> => ~ShowsOriginal(arg.value, ret.sarif[1])


(***************************************************************************)
(* Properties of sanitize_result (SpecResult)                              *)
(***************************************************************************)

\* The value of the message as it was before it was written into the text:
\* without the quotes around it.
ValueOfMessage ==
    IF Len(arg.value_text) >= 2 /\ Ch(arg.value_text, 1) = "\""
       /\ Ch(arg.value_text, Len(arg.value_text)) = "\""
    THEN SubSeq(arg.value_text, 2, Len(arg.value_text) - 1)
    ELSE arg.value_text

\* C23: for a message NAME=value whose NAME begins with a sensitive word the
\* sanitized message is the message with the value, or the value within its
\* quotes, replaced by the redaction marker: it has the marker, has no three
\* characters in a row of the value, and is the input message otherwise.
C23_WholeValueOfMessageRedacted ==
    (ret # <<>> /\ WordAt(arg.name, 1)) =>
        /\ Contains(ret[1].message, redaction_text)
        /\ \A i \in 1..(Len(ValueOfMessage) - 2) :
              ~Contains(ret[1].message, SubSeq(ValueOfMessage, i, i + 2))
        /\ ret[1].message \in
              {arg.prefix \o arg.name \o "=" \o redaction_text \o arg.suffix,
               arg.prefix \o arg.name \o "=\"" \o redaction_text \o "\"" \o arg.suffix}

RECURSIVE DetailsSanitized(_, _)
\* What the claim says of a value of the details and its sanitized value: a
\* dict has the same keys, under a sensitive key the redaction marker and
\* under another key a sanitized value; a list has sanitized items; a text
\* is a text; any other value is the same value.
DetailsSanitized(orig, san) ==
    CASE orig.t = "dict" ->
            /\ san.t = "dict"
            /\ Len(san.kids) = Len(orig.kids)
            /\ \A i \in 1..Len(orig.kids) :
                  /\ san.kids[i].k = orig.kids[i].k
                  /\ IF _is_sensitive_key(orig.kids[i].k)
                     THEN san.kids[i].val = StrV(redaction_text)
                     ELSE DetailsSanitized(orig.kids[i].val, san.kids[i].val)
      [] orig.t = "list" ->
            /\ san.t = "list"
            /\ Len(san.kids) = Len(orig.kids)
            /\ \A i \in 1..Len(orig.kids) :
                  DetailsSanitized(orig.kids[i].val, san.kids[i].val)
      [] orig.t = "str" -> san.t = "str"
      [] OTHER -> san = orig

\* C24: the details of the finding sanitize_result returns are the details
\* of its input sanitized at every depth, through dicts and lists: the
\* redaction marker under every sensitive key, the original content under
\* every other key unless it is a dict, a list or a text.
C24_DetailsSanitizedAtEveryDepth ==
    (ret # <<>> /\ arg.result.details # <<>>) =>
        /\ ret[1].details # <<>>
        /\ DetailsSanitized(arg.result.details[1], ret[1].details[1])

\* C30: sanitize_result gives a finding with the rule id, the level and the
\* location of its input, and sanitizing what it gave gives the same
\* finding again. (Its input is the value of arg, which no step changes.)
C30_SameFindingButMessageAndDetails ==
    /\ \A i \in 1..Len(ret) :
          /\ ret[i].rule_id = arg.result.rule_id
          /\ ret[i].level = arg.result.level
          /\ ret[i].line = arg.result.line
    /\ Len(ret) = 2 => ret[2] = ret[1]

(***************************************************************************)
(* Properties of the secrets scanner (SpecScan)                            *)
(***************************************************************************)

\* C7: when the engine fails at any point of scan_env_file or
\* scan_env_content, the call returns a list that holds exactly one
\* 'secrets-scan-error' finding, a warning on line 1, and no exception goes
\* on to the caller.
C7_EngineFailureIsOneWarning ==
    /\ ret.pc # "raised"
    /\ (ret.failed /\ ret.pc = "returned") =>
          /\ Cardinality({i \in 1..Len(ret.results) :
                             ret.results[i].rule_id = "secrets-scan-error"}) = 1
          /\ \A i \in 1..Len(ret.results) :
                ret.results[i].rule_id = "secrets-scan-error" =>
                    ret.results[i].level = "warning" /\ ret.results[i].line = 1
    /\ ret.failed => ret.pc = "returned"

\* C7 witness: the engine failed while the hits were processed, after a
\* finding was appended, and the call has returned.
C7_Witness ==
    /\ ret.failed
    /\ ret.pc = "returned"
    /\ Len(ret.results) >= 2
    /\ ret.results[1].rule_id = "secret-detected"


(***************************************************************************)
(* Properties of main (SpecMain)                                           *)
(***************************************************************************)

\* The reports the run has emitted, on standard output or in the output file.
Emitted == stdout \o written

\* The text occurs in a str somewhere inside the value.
RECURSIVE ValueShows(_, _)
ValueShows(v, text) ==
    \/ v.t = "str" /\ Contains(v.s, text)
    \/ \E i \in 1..Len(v.kids) : ValueShows(v.kids[i].val, text)

\* The fact has a value the schema does not accept.
FailsSchema(fact) ==
    /\ opts.schema # <<>>
    /\ opts.schema[1].loadable
    /\ LET errors == ValidationErrors(opts.schema[1].model_fields, env_vars)
       IN  \E n \in 1..Len(errors) : errors[n].loc = fact.key /\ errors[n].type # "missing"

\* C5: with --sanitize, the value of a variable with a sensitive name that
\* fails schema validation occurs in no message and in no properties of a
\* result of an emitted report.
C5_SensitiveValueNotInReport ==
    opts.sanitize =>
        \A d \in 1..Len(Emitted) : \A f \in 1..Len(env_vars) :
            (_is_sensitive_key(env_vars[f].key) /\ FailsSchema(env_vars[f])) =>
                \A r \in 1..Len(Emitted[d].results) :
                    /\ ~Contains(Emitted[d].results[r].message, env_vars[f].value)
                    /\ \A k \in 1..Len(Emitted[d].results[r].properties) :
                          ~ValueShows(Emitted[d].results[r].properties[k],
                                      env_vars[f].value)

\* Some stage of the pipeline raised: an exception other than the SystemExit
\* of the last statement.
StageRaised == \E i \in 1..Len(raised) : raised[i].stage # "exit"

\* C9: a run of main ends with status 0, 1 or 2: 0 exactly when no stage
\* raised and there are no findings, 1 exactly when no stage raised, the
\* report was emitted and there is a finding, 2 exactly when a stage raised.
C9_ExitStatusOfMain ==
    /\ pc = "exited" <=> exit_status # <<>>
    /\ pc = "exited" =>
          /\ exit_status[1] \in {0, 1, 2}
          /\ exit_status[1] = 0 <=> (~StageRaised /\ results = <<>>)
          /\ exit_status[1] = 1 <=> (~StageRaised /\ Emitted # <<>> /\ results # <<>>)
          /\ exit_status[1] = 2 <=> StageRaised
          /\ ~StageRaised => Len(Emitted) = 1

\* C9 witness: a run whose only finding is the warning of a failed scan has
\* emitted its report and ended with status 1 by the SystemExit of sys.exit.
C9_Witness ==
    /\ pc = "exited"
    /\ exit_status = <<1>>
    /\ Len(results) = 1
    /\ results[1].rule_id = "secrets-scan-error"
    /\ raised = <<[stage |-> "exit", class |-> "SystemExit"]>>
    /\ Emitted # <<>>

\* The policy file is not one PolicyLoader accepts.
MalformedPolicy(file) ==
    \/ file.yaml # "loaded"
    \/ file.doc.t # "dict"
    \/ \E i \in 1..Len(file.doc.kids) :
          file.doc.kids[i].k \notin {"required", "forbidden", "patterns", "metadata"}

\* The run is given a file that cannot be loaded.
LoadErrorInput ==
    \/ ~opts.env_file.readable
    \/ opts.policy # <<>> /\ MalformedPolicy(opts.policy[1])
    \/ opts.schema # <<>> /\ ~opts.schema[1].loadable

LoadErrorRaised ==
    \E i \in 1..Len(raised) : raised[i].stage \in {"read", "load_policy", "load_schema"}

\* C10: a run that is given a file it cannot load ends with a load error,
\* and once a load error is raised no report was built or emitted, no
\* detector has run and the status is 2.
C10_LoadErrorBeforeAnyOutput ==
    /\ (pc = "exited" /\ LoadErrorInput) => LoadErrorRaised
    /\ LoadErrorInput => (Emitted = <<>> /\ ran = <<>>)
    /\ LoadErrorRaised =>
          /\ pc = "exited"
          /\ exit_status = <<2>>
          /\ sarif_output = <<>>
          /\ Emitted = <<>>
          /\ ran = <<>>

\* C10 witness: the policy file is loaded, then the schema module cannot be
\* loaded and the run has ended.
C10_Witness ==
    /\ pc = "exited"
    /\ policy_rules # <<>>
    /\ metrics.policy_loaded
    /\ raised = <<[stage |-> "load_schema", class |-> "ValueError"]>>
    /\ opts.detect_secrets
    /\ opts.output = <<>>

\* C21: every rule of a report of main is an entry of the reporter's
\* registry: neither its description nor its help text is the text the
\* reporter writes for a rule id it does not know.
C21_NoRuleOfTheUnknownFallback ==
    \A d \in 1..Len(sarif_output) :
        \A i \in 1..Len(sarif_output[d].rules) :
            LET rule == sarif_output[d].rules[i]
            IN  /\ rule.shortDescription # "Rule " \o rule.id
                /\ rule.help # "Validation rule: " \o rule.id

\* C28: the fingerprint of a result is made of its rule, the file and its
\* line only: two results of a report with the same ruleId and startLine
\* have the same fingerprint, whatever their message, level and properties
\* are, and so the 'missing-required-var' findings of a run, all on line 1,
\* share one fingerprint, and the 'missing-required-field' findings another.
C28_OneFingerprintPerRuleAndLine ==
    sarif_output # <<>> =>
        LET rs == sarif_output[1].results
        IN  /\ \A i, j \in 1..Len(rs) :
                  (rs[i].ruleId = rs[j].ruleId /\ rs[i].startLine = rs[j].startLine)
                      => rs[i].fingerprint = rs[j].fingerprint
            /\ \A i, j \in 1..Len(rs) :
                  (/\ rs[i].ruleId \in {"missing-required-var", "missing-required-field"}
                   /\ rs[j].ruleId = rs[i].ruleId)
                      => rs[i].startLine = 1 /\ rs[i].fingerprint = rs[j].fingerprint

\* C28 witness: the report has two findings of one of the two rules, for
\* two names, and so with two messages.
C28_Witness ==
    /\ sarif_output # <<>>
    /\ \E i, j \in 1..Len(sarif_output[1].results) :
          LET rs == sarif_output[1].results
          IN  /\ rs[i].ruleId \in {"missing-required-var", "missing-required-field"}
              /\ rs[j].ruleId = rs[i].ruleId
              /\ rs[i].message # rs[j].message
              /\ rs[i].fingerprint = rs[j].fingerprint

\* The number of the results whose rule is one of the given rules.
CountOfRules(rs, rule_ids) == Cardinality({i \in 1..Len(rs) : rs[i].rule_id \in rule_ids})

\* C29: in a run that reached report generation the report has as many
\* results as findings were collected from the detectors, sanitizing kept
\* their number, and that number is schema_violations + secrets_found +
\* policy_violations, each metric being the number of the findings of its
\* detector, the one of a failed secrets scan counted in secrets_found.
C29_ResultsOfTheReportAreTheFindingsCounted ==
    /\ [](sarif_output # <<>> =>
            /\ Len(sarif_output[1].results) = Len(results)
            /\ Len(results) = metrics.schema_violations + metrics.secrets_found
                              + metrics.policy_violations
            /\ metrics.schema_violations
                   = CountOfRules(results, {"schema-validation", "missing-required-field"})
            /\ metrics.secrets_found
                   = CountOfRules(results, {"secret-detected", "secrets-scan-error"})
            /\ metrics.policy_violations
                   = CountOfRules(results,
                                  {"missing-required-var", "forbidden-var", "pattern-match"}))
    /\ [][(pc \in {"sanitize", "report"}) => Len(results') = Len(results)]_vars

\* C29 witness: the report of a sanitized run in which the scan found a
\* secret and then failed, and the schema and the policy each had a finding.
C29_Witness ==
    /\ sarif_output # <<>>
    /\ opts.sanitize
    /\ CountOfRules(results, {"secret-detected"}) >= 1
    /\ CountOfRules(results, {"secrets-scan-error"}) = 1
    /\ metrics.schema_violations >= 1
    /\ metrics.policy_violations >= 1

(***************************************************************************)
(* Properties of the merge of the detectors' lists (SpecMerge)             *)
(***************************************************************************)

\* The results of the run when the detectors return in the order main calls
\* them: schema validation, secrets detection, policy validation.
ResultsInCallOrder ==
    SanitizedResults(
        validate_env_vars(opts.schema[1].model_fields, env_vars)
        \o scan_env_file(env_vars, arg.engine)
        \o validate_policy(env_vars, policy_rules[1]),
        opts.sanitize)

\* C3: whatever the order in which the three detectors returned, the report
\* has the results sequence and the rule catalog of the report of the run in
\* which they return in the order main calls them.
C3_DetectorOrderDoesNotShow ==
    pc = "reported" =>
        LET inCallOrder == generate_report(ResultsInCallOrder, SourceFile, <<>>)
        IN  /\ sarif_output[1].results = inCallOrder.results
            /\ sarif_output[1].rules = inCallOrder.rules

\* C3 witness: the detectors returned in the reverse of the order main calls
\* them, each with a finding, two of them on the same line, and the report
\* is built.
C3_Witness ==
    /\ pc = "reported"
    /\ ran = <<"policy", "secrets", "schema">>
    /\ results # ResultsInCallOrder
    /\ \E i, j, k \in 1..Len(results) :
          /\ results[i].rule_id = "schema-validation"
          /\ results[j].rule_id = "secret-detected"
          /\ results[k].rule_id = "missing-required-var"
          /\ results[i].line = results[k].line

\* What a detector returns on the fact table and the policy main loaded.
DetectorOutput(detector) ==
    LET facts == parse_env_file(opts.env_file.content)
    IN  CASE detector = "schema" -> validate_env_vars(opts.schema[1].model_fields, facts)
          [] detector = "secrets" -> scan_env_file(facts, arg.engine)
          [] detector = "policy" -> validate_policy(facts, PolicyLoad(opts.policy[1]).policy[1])

\* C25: the detectors only read the fact table and the policy: whichever of
\* them have run, both are as they were loaded (keys, values, lines and the
\* order of the keys), and what each detector added to results is what it
\* returns on the loaded table and policy, whichever detectors ran before.
C25_DetectorsOnlyReadTheFactTable ==
    /\ env_vars = parse_env_file(opts.env_file.content)
    /\ policy_rules = PolicyLoad(opts.policy[1]).policy
    /\ pc = "detect" =>
          LET merged[n \in 0..Len(ran)] ==
                  IF n = 0 THEN <<>> ELSE merged[n - 1] \o DetectorOutput(ran[n])
          IN  results = merged[Len(ran)]

\* C25 witness: the three detectors have run on a table of two facts, the
\* policy validation last, and each of them returned a finding.
C25_Witness ==
    /\ pc = "detect"
    /\ ran = <<"secrets", "schema", "policy">>
    /\ Len(env_vars) >= 2
    /\ \A detector \in {"schema", "secrets", "policy"} : DetectorOutput(detector) # <<>>

(***************************************************************************)
(* Properties of audit (SpecAudit)                                         *)
(***************************************************************************)

\* secrets_scan returned the entry of a failed engine.
ScanFailed ==
    \E i \in 1..Len(findings) :
        findings[i].section = "secrets" /\ findings[i].items = <<ScanFailedItem>>

\* C8: a run of audit whose secrets scan failed, and whose output file can
\* be written, ends with the report written and with no exception but the
\* SystemExit of its last statement.
C8_ScanFailureDoesNotAbortAudit ==
    (pc = "exited" /\ ScanFailed
        /\ \A i \in 1..Len(raised) : raised[i].class # "OSError") =>
            /\ written # <<>>
            /\ \A i \in 1..Len(raised) : raised[i].stage = "exit"

\* The severity of the findings of a section: the level load_policy gives
\* the section.
SeverityOf(section) ==
    LET of == {n \in 1..Len(DefaultPolicy) : DefaultPolicy[n].section = section}
    IN  IF of = {} THEN "note" ELSE DefaultPolicy[CHOOSE n \in of : TRUE].level

\* The severities --fail-on lists.
ListedSeverities(fail_on) ==
    LET parts == SplitOn(fail_on, ",")
    IN  {Strip(parts[i]) : i \in 1..Len(parts)}

\* C11: a run of audit that reaches its last statement ends with status 1
\* exactly when there is a finding whose severity --fail-on lists, and
\* returns, with status 0, when there is none.
C11_FailOnListedSeverity ==
    (pc = "exited" /\ \A i \in 1..Len(raised) : raised[i].stage = "exit") =>
        (exit_status = <<1>> <=>
            \E i \in 1..Len(findings) :
                /\ findings[i].items # <<>>
                /\ SeverityOf(findings[i].section) \in ListedSeverities(opts.fail_on))


(***************************************************************************)
(* Properties of parse_env_file (SpecCalls)                                *)
(***************************************************************************)

\* The call of parse_env_file has returned.
Parsed == arg.fn = "parse_env_file" /\ ret # <<>>

\* The n-th line the file was written from, without the whitespace around it.
Trimmed(n) == Strip(arg.lines[n])

\* The lines that give a fact: not empty, no comment, with a "=".
KeptLines ==
    {n \in 1..Len(arg.lines) :
        /\ Trimmed(n) # ""
        /\ Ch(Trimmed(n), 1) # "#"
        /\ \E i \in 1..Len(Trimmed(n)) : Ch(Trimmed(n), i) = "="}

\* The position of the first "=" of a kept line.
FirstEq(n) ==
    CHOOSE i \in 1..Len(Trimmed(n)) :
        Ch(Trimmed(n), i) = "=" /\ \A j \in 1..(i - 1) : Ch(Trimmed(n), j) # "="

\* What stands before and after the first "=" of a kept line, trimmed.
KeyOfLine(n) == Strip(SubSeq(Trimmed(n), 1, FirstEq(n) - 1))

ValueOfLine(n) == Strip(SubSeq(Trimmed(n), FirstEq(n) + 1, Len(Trimmed(n))))

\* The lines a key occurs on, and the first and the last of them.
LinesOfKey(key) == {n \in KeptLines : KeyOfLine(n) = key}

FirstLineOfKey(key) == CHOOSE n \in LinesOfKey(key) : \A m \in LinesOfKey(key) : n <= m

LastLineOfKey(key) == CHOOSE n \in LinesOfKey(key) : \A m \in LinesOfKey(key) : n >= m

\* The value of a fact is what the line has after its first "=", as it is
\* or, when that begins with a quote, without its first and last character.
IsValueOfLine(value, n) ==
    \/ value = ValueOfLine(n)
    \/ /\ ValueOfLine(n) # ""
       /\ Ch(ValueOfLine(n), 1) \in {"\"", "'"}
       /\ value = SubSeq(ValueOfLine(n), 2, Len(ValueOfLine(n)) - 1)

\* C12: parse_env_file returns one fact for each key that stands before the
\* first "=" of a line which, trimmed, is not empty, does not start with "#"
\* and has a "=", and no other fact; key and value are the trimmed texts
\* before and after the first "=" of a line with that key, the later "=" in
\* the value, and the line of the fact is the number of that line in the
\* file, the blank and comment lines counted.
C12_OneFactPerKeyOfKeptLines ==
    Parsed =>
        LET facts == ret[1]
        IN  /\ \A i, j \in 1..Len(facts) : i # j => facts[i].key # facts[j].key
            /\ {facts[i].key : i \in 1..Len(facts)} = {KeyOfLine(n) : n \in KeptLines}
            /\ \A i \in 1..Len(facts) :
                  \E n \in LinesOfKey(facts[i].key) :
                      facts[i].line = n /\ IsValueOfLine(facts[i].value, n)

\* C12 witness: a file of a comment, a line without "=" and a line with two
\* "=" is parsed to the one fact of its third line.
C12_Witness ==
    /\ Parsed
    /\ arg.lines = <<"# A=1", "A", "B=x=y">>
    /\ ret[1] = <<[key |-> "B", value |-> "x=y", line |-> 3]>>

\* C13: the value of a fact is the trimmed value of its line without its
\* first and last character when these are the same quote character and
\* the value has more than that one character, and is the trimmed value
\* itself otherwise, so a value of a single quote character stays.
C13_UnquotedOnlyWhenWrapped ==
    Parsed =>
        \A i \in 1..Len(ret[1]) :
            LET v == ValueOfLine(LastLineOfKey(ret[1][i].key))
            IN  ret[1][i].value =
                    IF /\ Len(v) >= 2
                       /\ Ch(v, 1) = Ch(v, Len(v))
                       /\ Ch(v, 1) \in {"\"", "'"}
                    THEN SubSeq(v, 2, Len(v) - 1)
                    ELSE v

\* C14: the fact of a key has the value and the line of the last line the
\* key occurs on, and the facts are in the order of the first lines their
\* keys occur on.
C14_LastOccurrenceFirstSeenOrder ==
    Parsed =>
        LET facts == ret[1]
        IN  /\ \A i \in 1..Len(facts) :
                  /\ facts[i].line = LastLineOfKey(facts[i].key)
                  /\ IsValueOfLine(facts[i].value, LastLineOfKey(facts[i].key))
            /\ \A i, j \in 1..Len(facts) :
                  i < j => FirstLineOfKey(facts[i].key) < FirstLineOfKey(facts[j].key)

\* C14 witness: the key A occurs on the first and the third line and the
\* key B between them; A has the value and line of the third and stays first.
C14_Witness ==
    /\ Parsed
    /\ arg.lines = <<"A=1", "B=x=y", " A = 2 ">>
    /\ ret[1] = <<[key |-> "A", value |-> "2", line |-> 3],
                  [key |-> "B", value |-> "x=y", line |-> 2]>>

\* The facts of the table that stand on the line.
FactsOnLine(facts, n) == {i \in 1..Len(facts) : facts[i].line = n}

\* C27: scan_env_file returns one 'secret-detected' error finding for each
\* hit of the engine, in the order of the hits and on the line of the hit;
\* its details.variable is the key of the one fact of the table on that
\* line, or "" if the table has no fact there; and no two facts of a table
\* parse_env_file built stand on the same line.
C27_OneFindingPerHitOfTheFactOnItsLine ==
    Parsed =>
        /\ \A n \in 1..Len(arg.lines) : Cardinality(FactsOnLine(ret[1], n)) <= 1
        /\ Len(ret) = 2 =>
              /\ Len(ret[2].results) = Len(ret[2].hits)
              /\ \A h \in 1..Len(ret[2].hits) :
                    LET line == ret[2].hits[h].line_number
                        variable == IF FactsOnLine(ret[1], line) = {} THEN ""
                                    ELSE ret[1][CHOOSE i \in FactsOnLine(ret[1], line) : TRUE].key
                        finding == ret[2].results[h]
                    IN  /\ finding.rule_id = "secret-detected"
                        /\ finding.level = "error"
                        /\ finding.line = line
                        /\ finding.details
                              = <<DictV(<<Entry("secret_type", StrV(ret[2].hits[h].type)),
                                          Entry("variable", StrV(variable))>>)>>

\* C27 witness: the key of line 1 is given again on line 3 and line 2 is a
\* comment; the engine reported every line, and only the finding of line 3
\* names the variable.
C27_Witness ==
    /\ Parsed
    /\ arg.lines = <<"A=1", "# A=1", " A = 2 ">>
    /\ Len(ret) = 2
    /\ Len(ret[2].results) = 3
    /\ ret[2].results[1].line = 3
    /\ ret[2].results[1].message = "Potential Secret Keyword detected in A"
    /\ ret[2].results[3].message = "Potential Secret Keyword detected in environment file"

(***************************************************************************)
(* Properties of validate_policy (SpecCalls)                               *)
(***************************************************************************)

\* The call of validate_policy has returned.
PolicyValidated == arg.fn = "validate_policy" /\ ret # <<>>

\* The names a section of the policy lists, and the patterns of the policy.
NamesOf(section) ==
    IF HasKey(arg.policy, section)
    THEN [i \in 1..Len(ValueOf(arg.policy, section).kids) |->
             ValueOf(arg.policy, section).kids[i].val.s]
    ELSE <<>>

PatternsOfPolicy ==
    IF HasKey(arg.policy, "patterns")
    THEN [i \in 1..Len(ValueOf(arg.policy, "patterns").kids) |->
             ValueOf(arg.policy, "patterns").kids[i].val]
    ELSE <<>>

\* The name begins with the text.
StartsWith(name, text) == Len(name) >= Len(text) /\ SubSeq(name, 1, Len(text)) = text

\* The regex matches at the start of the name, for the patterns of the
\* policies: what each of them says of a name, in words of prefixes.
MatchesAtStart(regex, name) ==
    CASE regex = "^TEST_.*" -> StartsWith(name, "TEST_")
      [] regex = "TEST" -> StartsWith(name, "TEST")
      [] regex = ".*_PROD" -> \E i \in 1..Len(name) : StartsWith(SubSeq(name, i, Len(name)), "_PROD")
      [] regex = "DEBUG$" -> name = "DEBUG"

\* The (pattern, fact) pairs that give a finding, in policy pattern order
\* and, within a pattern, in fact-table order.
WarnedPairs ==
    LET np == Len(PatternsOfPolicy)
        nf == Len(arg.facts)
        pairs[k \in 0..(np * nf)] ==
            IF k = 0 THEN <<>>
            ELSE LET p == ((k - 1) \div nf) + 1
                     f == ((k - 1) % nf) + 1
                     rule == PatternsOfPolicy[p]
                 IN  IF /\ \E i \in 1..Len(rule.kids) :
                              rule.kids[i].k = "action" /\ rule.kids[i].val = StrV("warn")
                        /\ MatchesAtStart(ValueOf(rule, "regex").s, arg.facts[f].key)
                     THEN Append(pairs[k - 1], [pattern |-> rule, fact |-> arg.facts[f]])
                     ELSE pairs[k - 1]
    IN  pairs[np * nf]

\* The violations of the policy, each once: the required names that are
\* absent, the forbidden names that are present, the warned pairs.
ViolationsOfPolicy ==
    LET isFirst(seq, n) == \A m \in 1..(n - 1) : seq[m] # seq[n]
        present(name) == \E f \in 1..Len(arg.facts) : arg.facts[f].key = name
        lineOf(name) ==
            arg.facts[CHOOSE f \in 1..Len(arg.facts) : arg.facts[f].key = name].line
        req == NamesOf("required")
        forb == NamesOf("forbidden")
        required[n \in 0..Len(req)] ==
            IF n = 0 THEN <<>>
            ELSE IF isFirst(req, n) /\ ~present(req[n])
                 THEN Append(required[n - 1],
                         [rule_id |-> "missing-required-var", level |-> "error", line |-> 1,
                          variable |-> req[n]])
                 ELSE required[n - 1]
        forbidden[n \in 0..Len(forb)] ==
            IF n = 0 THEN <<>>
            ELSE IF isFirst(forb, n) /\ present(forb[n])
                 THEN Append(forbidden[n - 1],
                         [rule_id |-> "forbidden-var", level |-> "error",
                          line |-> lineOf(forb[n]), variable |-> forb[n]])
                 ELSE forbidden[n - 1]
    IN  required[Len(req)] \o forbidden[Len(forb)]
        \o [k \in 1..Len(WarnedPairs) |->
               [rule_id |-> "pattern-match", level |-> "warning",
                line |-> WarnedPairs[k].fact.line, variable |-> ""]]

\* C15: validate_policy returns one finding for each violation of the policy
\* and nothing else: the missing-required-var errors on line 1, in policy
\* order, then the forbidden-var errors on the lines of their facts, in
\* policy order, then the pattern-match warnings in pattern order and, for
\* one pattern, in fact-table order; each names its variable.
C15_OneFindingPerViolationInOrder ==
    PolicyValidated =>
        /\ Len(ret[1]) = Len(ViolationsOfPolicy)
        /\ \A i \in 1..Len(ret[1]) :
              i <= Len(ViolationsOfPolicy) =>
                  /\ ret[1][i].rule_id = ViolationsOfPolicy[i].rule_id
                  /\ ret[1][i].level = ViolationsOfPolicy[i].level
                  /\ ret[1][i].line = ViolationsOfPolicy[i].line
                  /\ Contains(ret[1][i].message, ViolationsOfPolicy[i].variable)

\* C16: the pattern-match findings are one for each pair of a pattern whose
\* action is 'warn' and a variable whose name the regex matches at its
\* start, and no other; each is a warning on the line of the variable, with
\* the message of the pattern if it has one and else with a message that
\* names the variable.
C16_OneWarningPerWarnedPair ==
    PolicyValidated =>
        LET matches == SelectSeq(ret[1], LAMBDA r : r.rule_id = "pattern-match")
        IN  /\ Len(matches) = Len(WarnedPairs)
            /\ \A k \in 1..Len(matches) :
                  k <= Len(WarnedPairs) =>
                      /\ matches[k].level = "warning"
                      /\ matches[k].line = WarnedPairs[k].fact.line
                      /\ IF HasKey(WarnedPairs[k].pattern, "message")
                         THEN matches[k].message
                                 = ValueOf(WarnedPairs[k].pattern, "message").s
                         ELSE Contains(matches[k].message, WarnedPairs[k].fact.key)

\* C16 witness: a regex that matches the start of a name and not the whole
\* of it gives a warning with the default message, and a pattern whose
\* action is not 'warn' matches a name and gives none.
C16_Witness ==
    /\ PolicyValidated
    /\ Len(PatternsOfPolicy) = 2
    /\ ValueOf(PatternsOfPolicy[1], "regex") = StrV("TEST")
    /\ ~HasKey(PatternsOfPolicy[1], "message")
    /\ HasKey(PatternsOfPolicy[2], "action")
    /\ ValueOf(PatternsOfPolicy[2], "action") = StrV("block")
    /\ \E f \in 1..Len(arg.facts) : arg.facts[f].key = "MY_PROD_KEY"
    /\ ret[1] = <<[rule_id |-> "pattern-match", level |-> "warning",
                   message |-> "Variable 'TEST_VAR' matches pattern", line |-> 6,
                   details |-> <<>>]>>


(***************************************************************************)
(* Properties of PolicyLoader.load (SpecCalls)                             *)
(***************************************************************************)

\* The call of load has ended.
Loaded == arg.fn = "load" /\ ret # <<>>

\* The regexes of the policy files that Python's re compiles; the others,
\* "*_PROD", "TEST_(", "[A-Z", "A**" and "^*", it does not.
CompilingRegexes == {"^TEST_.*", ".*_PROD_.*", "DEBUG$", ".*"}

\* A list of strings.
IsListOfStrings(v) == v.t = "list" /\ \A i \in 1..Len(v.kids) : v.kids[i].val.t = "str"

\* The document is a structurally valid policy.
StructurallyValid(doc) ==
    /\ doc.t = "dict"
    /\ \A i \in 1..Len(doc.kids) :
          /\ doc.kids[i].k \in {"required", "forbidden", "patterns", "metadata"}
          /\ doc.kids[i].k \in {"required", "forbidden"} => IsListOfStrings(doc.kids[i].val)
          /\ doc.kids[i].k = "patterns" =>
                /\ doc.kids[i].val.t = "list"
                /\ \A p \in 1..Len(doc.kids[i].val.kids) :
                      LET pattern == doc.kids[i].val.kids[p].val
                      IN  /\ pattern.t = "dict"
                          /\ \E k \in 1..Len(pattern.kids) :
                                /\ pattern.kids[k].k = "regex"
                                /\ pattern.kids[k].val.t = "str"
                                /\ pattern.kids[k].val.s \in CompilingRegexes

\* C17: load either raises, and then a ValueError, or returns the document
\* of the file, and then the file was read and parsed and the document is a
\* structurally valid policy; a file that is unreadable, not YAML, empty or
\* not a structurally valid policy is not loaded.
C17_ValueErrorOrValidPolicy ==
    Loaded =>
        /\ (ret[1].raised = <<>>) # (ret[1].policy = <<>>)
        /\ ret[1].raised # <<>> => ret[1].raised[1].class = "ValueError"
        /\ ret[1].policy # <<>> =>
              /\ arg.file.yaml = "loaded"
              /\ ret[1].policy[1] = arg.file.doc
              /\ StructurallyValid(ret[1].policy[1])
        /\ (arg.file.yaml = "loaded" /\ StructurallyValid(arg.file.doc)) =>
              ret[1].policy # <<>>

\* C17 witness: the document of the file is a list, the AttributeError of
\* its missing keys() is caught and load has raised a ValueError.
C17_Witness ==
    /\ Loaded
    /\ arg.file.doc.t = "list"
    /\ ret[1].policy = <<>>
    /\ ret[1].raised = <<Error("ValueError",
                               "Error loading policy: 'list' object has no attribute 'keys'")>>


(***************************************************************************)
(* Properties of SchemaIntrospector.validate_env_vars (SpecCalls)          *)
(***************************************************************************)

\* The call of validate_env_vars has returned.
SchemaValidated == arg.fn = "validate_env_vars" /\ ret # <<>>

\* The field a finding is about, from its details.
FieldOfFinding(r) ==
    r.details[1].kids[CHOOSE k \in 1..Len(r.details[1].kids) :
                          r.details[1].kids[k].k = "field"].val.s

\* The lines of the facts of a variable: one line, or none.
LinesOfVariable(name) ==
    {arg.facts[f].line : f \in {g \in 1..Len(arg.facts) : arg.facts[g].key = name}}

\* C18: for every required field of the model class without a fact there is
\* exactly one missing-required-field finding, an error on line 1 with the
\* field in its details, also when the model class reported errors, and
\* there is none for another field; every schema-validation finding is on
\* the line of the fact of its field, or on line 1 if the field has no fact.
C18_MissingFieldsAndLinesOfErrors ==
    SchemaValidated =>
        LET missing == {i \in 1..Len(ret[1]) : ret[1][i].rule_id = "missing-required-field"}
            absent == {n \in 1..Len(arg.model_fields) :
                          /\ arg.model_fields[n].required
                          /\ LinesOfVariable(arg.model_fields[n].name) = {}}
        IN  /\ \A n \in absent :
                  Cardinality({i \in missing :
                                  FieldOfFinding(ret[1][i]) = arg.model_fields[n].name}) = 1
            /\ \A i \in missing :
                  /\ ret[1][i].level = "error"
                  /\ ret[1][i].line = 1
                  /\ \E n \in absent : FieldOfFinding(ret[1][i]) = arg.model_fields[n].name
            /\ \A i \in 1..Len(ret[1]) :
                  ret[1][i].rule_id = "schema-validation" =>
                      LET lines == LinesOfVariable(FieldOfFinding(ret[1][i]))
                      IN  IF lines = {} THEN ret[1][i].line = 1
                          ELSE ret[1][i].line \in lines

\* C18 witness: the model class rejects the value of PORT, which has its
\* fact on line 5, and the required APP_NAME has no fact: the findings are
\* the two of the model class and the one of the missing field.
C18_Witness ==
    /\ SchemaValidated
    /\ \E i \in 1..Len(ret[1]) :
          /\ ret[1][i].rule_id = "schema-validation"
          /\ FieldOfFinding(ret[1][i]) = "PORT"
          /\ ret[1][i].line = 5
    /\ \E i \in 1..Len(ret[1]) :
          /\ ret[1][i].rule_id = "schema-validation"
          /\ FieldOfFinding(ret[1][i]) = "APP_NAME"
          /\ ret[1][i].line = 1
    /\ \E i \in 1..Len(ret[1]) :
          /\ ret[1][i].rule_id = "missing-required-field"
          /\ FieldOfFinding(ret[1][i]) = "APP_NAME"
    /\ Len(ret[1]) = 3

(***************************************************************************)
(* Properties of Metrics (SpecMetrics)                                     *)
(***************************************************************************)
\* The metric a record_* method writes.
MetricOf(method) ==
    CASE method = "record_file_size" -> "file_size_bytes"
      [] method = "record_env_var_count" -> "env_var_count"
      [] method = "record_schema_violations" -> "schema_violations"
      [] method = "record_secrets_found" -> "secrets_found"
      [] method = "record_policy_violations" -> "policy_violations"
      [] method = "record_policy_loaded" -> "policy_loaded"
      [] OTHER -> ""

\* The value the most recent of the first n calls recorded for the metric,
\* or the value of a new object if none of them recorded it.
LastRecorded(metric, n) ==
    LET calls == {i \in 1..n : MetricOf(ret[i].method) = metric}
    IN  IF calls = {}
        THEN NewMetrics("")[metric]
        ELSE ret[CHOOSE i \in calls : \A j \in calls : j <= i].value

\* C26: after any sequence of record_* calls every metric holds the value of
\* the most recent call that recorded it, or 0 (False for policy_loaded) if
\* none did; each call changes only its own metric; policy_loaded never goes
\* back from True to False; and get_total_violations returns
\* schema_violations + secrets_found + policy_violations.
C26_MetricsHoldTheLastRecordedValues ==
    /\ [](\A metric \in DOMAIN metrics \ {"timestamp"} :
              metrics[metric] = LastRecorded(metric, Len(ret)))
    /\ [](\A i \in 1..Len(ret) :
              ret[i].method = "get_total_violations" =>
                  ret[i].value = LastRecorded("schema_violations", i)
                                 + LastRecorded("secrets_found", i)
                                 + LastRecorded("policy_violations", i))
    /\ [][/\ \A metric \in DOMAIN metrics :
                 metric # MetricOf(ret'[Len(ret')].method) =>
                     metrics'[metric] = metrics[metric]
          /\ metrics.policy_loaded => metrics'.policy_loaded]_vars

\* The secrets count was recorded twice and the total was asked for then.
C26_Witness ==
    /\ Len(ret) = 3
    /\ ret[1].method = "record_secrets_found" /\ ret[1].value = 2
    /\ ret[2].method = "record_secrets_found" /\ ret[2].value = 1
    /\ ret[3].method = "get_total_violations" /\ ret[3].value = 1
    /\ metrics.secrets_found = 1

====
